---- MODULE Spec2Model ----
(***************************************************************************)
(* Model of the postep TypeScript bridge (packages/bridge), the Expo app's *)
(* root store (apps/mobile/store/orgConfig.ts) and the Agenda / Capture /  *)
(* Library screens.                                                        *)
(*                                                                         *)
(* JavaScript runs handlers to completion, so every bridge function and    *)
(* every store action is one atomic step.  What a call did, in order, is   *)
(* kept in callLog so that ordering properties are state predicates.       *)
(***************************************************************************)
EXTENDS Integers, Sequences, FiniteSets, TLC

VARIABLES
    bridgeListeners,  \* [BridgeEvent -> sequence of listeners], a JS Set in insertion order
    callLog,          \* what the most recent step did, in program order, when
                      \* that step was a bridge or store call (else empty)
    store,            \* the zustand store: [roots, roamRoots]
    nativeConfig,     \* the OrgBridgeConfig of the most recent native set_roots call
                      \* that returned: the natively tracked root set
    lastSync,         \* when the most recent step was a store call: what it passed to
                      \* set_roots and what the store held while its listeners ran
    allCompleted,     \* no store call has thrown so far
    fileVer,          \* version of the Org files on disk; every write makes a new one
    cache,            \* react-query cache of the agenda query: [query key -> version
                      \* of the files its snapshot was computed from], NoData if none
    pending,          \* results of queryFn whose promise has not resolved yet, by key
    pickerItem,       \* AgendaScreen's pickerItem state: the item the picker is open for
    saf,              \* position of handlePickOrgRoot: "idle", "importing" (at its
                      \* first await) or "picking" (at its second)
    lastApply,        \* the most recent applyStatus: the address it passed and the
                      \* snapshot the cache held at that moment
    lastMutation,     \* the most recent mutation a screen completed: its key and the
                      \* file version it wrote
    items,            \* AgendaScreen: agendaQuery.data.items, the agenda items in
                      \* the order the snapshot lists them
    groups,           \* AgendaScreen: the memoised groupByDay(items)
    raw,              \* LibraryScreen: documentQuery.data.raw, a string as a
                      \* sequence of one-character strings ('' if no document)
    slate,            \* LibraryScreen: documentQuery.data.slate, the nodes the
                      \* native engine parsed ([] if no document)
    outlineOnly,      \* LibraryScreen: the "outline only" switch
    readerMode,       \* LibraryScreen: the "reader mode" switch
    slateNodes,       \* LibraryScreen: the memoised nodes the editor shows
    safFlow,          \* handlePickOrgRoot ("org") and handlePickRoamRoot ("roam"):
                      \* where the call is and what its requestOrgDirectory did
    persistedUris,    \* the URIs for which persistPermissionsAsync has completed
    roamDocs,         \* the documents under the roam roots, as the native engine
                      \* would read them now
    roamGraph,        \* RoamScreen: roamQuery.data
    selectedNodeId,   \* RoamScreen: the selectedNodeId state
    syncRoots,        \* sync orchestrator: the registered roots
    syncJobs,         \* sync orchestrator: the jobs in flight, in start order
    lastRequest,      \* sync orchestrator: the most recent request and what
                      \* became of it
    libraryDocs,      \* the paths of the documents under the roots, as native
                      \* list_documents would return them now
    documents,        \* LibraryScreen: documentsQuery.data
    selectedPath,     \* LibraryScreen: the selectedPath state
    handles,          \* the unsubscribe functions subscribeBridgeEvent has
                      \* returned: the bucket and listener each closes over,
                      \* and whether it has been called
    hooks             \* the uses of useBridgeEvent: whether each is mounted, and
                      \* the event and listener of its latest effect

bridgeVars == <<bridgeListeners, callLog>>
storeVars == <<store, nativeConfig, lastSync, allCompleted>>
agendaVars == <<fileVer, cache, pending, pickerItem, saf, lastApply, lastMutation>>
viewVars == <<items, groups, raw, slate, outlineOnly, readerMode, slateNodes>>
safVars == <<safFlow, persistedUris>>
roamVars == <<roamDocs, roamGraph, selectedNodeId>>
syncVars == <<syncRoots, syncJobs, lastRequest>>
libraryVars == <<libraryDocs, documents, selectedPath>>
hookVars == <<handles, hooks>>
flowVars == <<safVars, roamVars, syncVars, libraryVars, hookVars>>
vars == <<bridgeVars, storeVars, agendaVars, viewVars, flowVars>>

\* ------------------------------------------------------------------ bounds
\* Number of distinct listener closures that may be alive at once.
MaxListeners == 2

\* Number of unsubscribe functions subscribeBridgeEvent may have returned.
MaxHandles == 2

\* Number of uses of useBridgeEvent that may be mounted at once.
MaxHooks == 2

\* Number of subscriptions, over all events, that may be alive at once.
MaxSubscriptions == 3

\* Number of times the Org files are written (by mutations or from outside).
MaxVersion == 2

\* Number of screens mounted at once while the root store is exercised.
MaxMounted == 2

Listeners == 1..MaxListeners

\* ------------------------------------------------------------ bridge events
BridgeEvent == {"agendaChanged", "documentsChanged", "rootsChanged"}

\* The native module either returns, throws, or cannot be located at all
\* (resolveNativeBinding throws before the native function is entered).
NativeOutcome == {"ok", "throws", "missing"}

\* ---------------------------------------------------------------- helpers
SeqToSet(s) == {s[i] : i \in 1..Len(s)}

\* The listeners in one bucket of a listener table.
Subscribers0(ls, event) == SeqToSet(ls[event])

Contains(s, x) == \E i \in 1..Len(s) : s[i] = x

RECURSIVE Without(_, _)
Without(s, x) ==
    IF s = <<>> THEN <<>>
    ELSE IF Head(s) = x THEN Without(Tail(s), x)
    ELSE <<Head(s)>> \o Without(Tail(s), x)

\* One entry of callLog.  kind is "enter", "native", "deliver", "return" or
\* "throw"; name is the function or event concerned.
Entry(kind, name, listener, threw) ==
    [kind |-> kind, name |-> name, listener |-> listener, threw |-> threw]

Delivered(log, event, l) ==
    \E i \in 1..Len(log) :
        log[i].kind = "deliver" /\ log[i].name = event /\ log[i].listener = l

HasKind(log, kind) == \E i \in 1..Len(log) : log[i].kind = kind

\* The call entered first in the log, "" when the log is empty.
CallName(log) == IF Len(log) > 0 THEN log[1].name ELSE ""

Returned(log) == Len(log) > 0 /\ log[Len(log)].kind = "return"

Threw(log) == Len(log) > 0 /\ log[Len(log)].kind = "throw"

Subscribers(event) == SeqToSet(bridgeListeners[event])

\* bridgeListeners = { agendaChanged: new Set(), ... }
EmptyListeners == [e \in BridgeEvent |-> <<>>]

\* subscribeBridgeEvent: bucket.add(listener); Set.add keeps an element that
\* is already present where it is.
subscribeBridgeEvent(ls, event, listener) ==
    IF Contains(ls[event], listener) THEN ls
    ELSE [ls EXCEPT ![event] = Append(@, listener)]

\* The function subscribeBridgeEvent returns: bucket.delete(listener).
unsubscribe(ls, event, listener) ==
    [ls EXCEPT ![event] = Without(@, listener)]

\* emitBridgeEvent with the try/catch removed: the first listener that throws
\* ends the forEach.
RECURSIVE EmitNoCatch(_, _, _)
EmitNoCatch(bucket, event, throwers) ==
    IF bucket = <<>> THEN <<>>
    ELSE IF Head(bucket) \in throwers
         THEN <<Entry("deliver", event, Head(bucket), TRUE)>>
         ELSE <<Entry("deliver", event, Head(bucket), FALSE)>>
              \o EmitNoCatch(Tail(bucket), event, throwers)

\* emitBridgeEvent: forEach over the Set in insertion order; a listener that
\* throws is caught and logged, and the loop goes on.
emitBridgeEvent(bucket, event, throwers) ==
    [i \in 1..Len(bucket) |->
        Entry("deliver", event, bucket[i], bucket[i] \in throwers)]

\* BridgeMutation with the events emitted before the native call is made.
BridgeMutationEmitFirst(fn, emits, rootsEmpty, native, ls, throwers) ==
    IF rootsEmpty
    THEN <<Entry("enter", fn, 0, FALSE), Entry("throw", fn, 0, FALSE)>>
    ELSE <<Entry("enter", fn, 0, FALSE)>>
         \o (IF Len(emits) >= 1 THEN emitBridgeEvent(ls[emits[1]], emits[1], throwers) ELSE <<>>)
         \o (IF Len(emits) >= 2 THEN emitBridgeEvent(ls[emits[2]], emits[2], throwers) ELSE <<>>)
         \o (IF native # "ok" THEN <<Entry("throw", fn, 0, FALSE)>>
             ELSE <<Entry("native", fn, 0, FALSE), Entry("return", fn, 0, FALSE)>>)

\* The three mutations share one shape: guard on roots, native call, emits,
\* normalised snapshot returned.  emits is the sequence of events the
\* function emits after the native call.
BridgeMutation(fn, emits, rootsEmpty, native, ls, throwers) ==
    IF rootsEmpty
    THEN <<Entry("enter", fn, 0, FALSE), Entry("throw", fn, 0, FALSE)>>
    ELSE IF native # "ok"
    THEN <<Entry("enter", fn, 0, FALSE), Entry("throw", fn, 0, FALSE)>>
    ELSE <<Entry("enter", fn, 0, FALSE), Entry("native", fn, 0, FALSE)>>
         \o (IF Len(emits) >= 1 THEN emitBridgeEvent(ls[emits[1]], emits[1], throwers) ELSE <<>>)
         \o (IF Len(emits) >= 2 THEN emitBridgeEvent(ls[emits[2]], emits[2], throwers) ELSE <<>>)
         \o <<Entry("return", fn, 0, FALSE)>>

completeAgendaItem(rootsEmpty, native, ls, throwers) ==
    BridgeMutation("completeAgendaItem", <<"agendaChanged">>,
                   rootsEmpty, native, ls, throwers)

setAgendaStatus(rootsEmpty, native, ls, throwers) ==
    BridgeMutation("setAgendaStatus", <<"agendaChanged">>,
                   rootsEmpty, native, ls, throwers)

appendCaptureEntry(rootsEmpty, native, ls, throwers) ==
    BridgeMutation("appendCaptureEntry", <<"agendaChanged", "documentsChanged">>,
                   rootsEmpty, native, ls, throwers)

\* setRoots with the two events emitted before native set_roots is called.
setRootsEmitFirst(native, ls, throwers) ==
    <<Entry("enter", "setRoots", 0, FALSE)>>
    \o emitBridgeEvent(ls["rootsChanged"], "rootsChanged", throwers)
    \o emitBridgeEvent(ls["documentsChanged"], "documentsChanged", throwers)
    \o (IF native # "ok" THEN <<Entry("throw", "setRoots", 0, FALSE)>>
        ELSE <<Entry("native", "setRoots", 0, FALSE), Entry("return", "setRoots", 0, FALSE)>>)

\* setRoots has no guard on roots: native set_roots, then rootsChanged, then
\* documentsChanged.
setRoots(native, ls, throwers) ==
    IF native # "ok"
    THEN <<Entry("enter", "setRoots", 0, FALSE), Entry("throw", "setRoots", 0, FALSE)>>
    ELSE <<Entry("enter", "setRoots", 0, FALSE), Entry("native", "setRoots", 0, FALSE)>>
         \o emitBridgeEvent(ls["rootsChanged"], "rootsChanged", throwers)
         \o emitBridgeEvent(ls["documentsChanged"], "documentsChanged", throwers)
         \o <<Entry("return", "setRoots", 0, FALSE)>>

MutationFns == {"completeAgendaItem", "setAgendaStatus", "appendCaptureEntry"}

\* ------------------------------------------------------------ the root store
\* A path is a sequence of one-character strings, so that trim() is computed.
IsSpace(c) == c \in {" ", "\n"}

RECURSIVE TrimStart(_)
TrimStart(p) ==
    IF p = <<>> THEN <<>>
    ELSE IF IsSpace(Head(p)) THEN TrimStart(Tail(p))
    ELSE p

RECURSIVE TrimEnd(_)
TrimEnd(p) ==
    IF p = <<>> THEN <<>>
    ELSE IF IsSpace(p[Len(p)]) THEN TrimEnd(SubSeq(p, 1, Len(p) - 1))
    ELSE p

\* String.prototype.trim
Trim(p) == TrimEnd(TrimStart(p))

\* The strings the UI and other callers hand to the store.
PathInputs == {<<"a">>, <<" ", "a">>, <<"b">>, <<" ">>, <<>>}

\* create(...): roots: [], roamRoots: []
InitialStore == [roots |-> <<>>, roamRoots |-> <<>>]

\* An OrgBridgeConfig; roamRoots is an optional field.
Config(r, hasRoam, rr) ==
    [called |-> TRUE, roots |-> r, hasRoam |-> hasRoam, roamRoots |-> rr]

NoConfig == [called |-> FALSE, roots |-> <<>>, hasRoam |-> FALSE, roamRoots |-> <<>>]

\* roamRoots of a config, an omitted field counting as empty.
ConfigRoam(cfg) == IF cfg.hasRoam THEN cfg.roamRoots ELSE <<>>

\* syncNative: setRoots({ roots, ...(roamRoots.length > 0 ? { roamRoots } : {}) })
\* and then emitBridgeEvent('rootsChanged').  passed is what reached native
\* set_roots (nothing when the module could not be located).
syncNative(r, rr, native, ls, throwers) ==
    LET setLog == setRoots(native, ls, throwers)
        threw  == setLog[Len(setLog)].kind = "throw"
    IN  [threw  |-> threw,
         passed |-> IF native = "missing" THEN NoConfig
                    ELSE Config(r, Len(rr) > 0, IF Len(rr) > 0 THEN rr ELSE <<>>),
         log    |-> IF threw THEN setLog
                    ELSE setLog \o emitBridgeEvent(ls["rootsChanged"], "rootsChanged", throwers)]

RECURSIVE Filter(_, _)
\* roots.filter((root) => root !== path)
Filter(r, path) ==
    IF r = <<>> THEN <<>>
    ELSE IF Head(r) # path THEN <<Head(r)>> \o Filter(Tail(r), path)
    ELSE Filter(Tail(r), path)

\* What one store call yields: the state the store holds afterwards, whether
\* the call threw, what was passed to set_roots, the store state that was
\* current while the listeners ran (the updater has not returned yet, so it is
\* the state the updater was given), and the log.
StoreResult(fn, next, state, sync) ==
    [state  |-> IF sync.threw THEN state ELSE next,
     threw  |-> sync.threw,
     synced |-> TRUE,
     passed |-> sync.passed,
     seen   |-> state,
     log    |-> <<Entry("enter", fn, 0, FALSE)>> \o sync.log
                \o <<Entry(IF sync.threw THEN "throw" ELSE "return", fn, 0, FALSE)>>]

\* The updater returned `state` itself: nothing is synced, nothing changes.
StoreNoop(fn, state) ==
    [state  |-> state,
     threw  |-> FALSE,
     synced |-> FALSE,
     passed |-> NoConfig,
     seen   |-> state,
     log    |-> <<Entry("enter", fn, 0, FALSE), Entry("return", fn, 0, FALSE)>>]

\* addRoot that appends the path as it was given.
addRootAsGiven(state, path, native, ls, throwers) ==
    LET nextRoots == Append(state.roots, path)
    IN  StoreResult("addRoot", [state EXCEPT !.roots = nextRoots], state,
                    syncNative(nextRoots, state.roamRoots, native, ls, throwers))

addRoot(state, path, native, ls, throwers) ==
    LET trimmed == Trim(path) IN
    IF trimmed = <<>> \/ Contains(state.roots, trimmed)
    THEN StoreNoop("addRoot", state)
    ELSE LET nextRoots == Append(state.roots, trimmed)
         IN  StoreResult("addRoot", [state EXCEPT !.roots = nextRoots], state,
                         syncNative(nextRoots, state.roamRoots, native, ls, throwers))

removeRoot(state, path, native, ls, throwers) ==
    LET nextRoots == Filter(state.roots, path)
    IN  StoreResult("removeRoot", [state EXCEPT !.roots = nextRoots], state,
                    syncNative(nextRoots, state.roamRoots, native, ls, throwers))

addRoamRoot(state, path, native, ls, throwers) ==
    LET trimmed == Trim(path) IN
    IF trimmed = <<>> \/ Contains(state.roamRoots, trimmed)
    THEN StoreNoop("addRoamRoot", state)
    ELSE LET nextRoam == Append(state.roamRoots, trimmed)
         IN  StoreResult("addRoamRoot", [state EXCEPT !.roamRoots = nextRoam], state,
                         syncNative(state.roots, nextRoam, native, ls, throwers))

removeRoamRoot(state, path, native, ls, throwers) ==
    LET nextRoam == Filter(state.roamRoots, path)
    IN  StoreResult("removeRoamRoot", [state EXCEPT !.roamRoots = nextRoam], state,
                    syncNative(state.roots, nextRoam, native, ls, throwers))

\* reset is an ordinary function of the store object: it never calls set(),
\* and the object it returns is dropped by its caller.
reset(state, native, ls, throwers) ==
    StoreResult("reset", state, state, syncNative(<<>>, <<>>, native, ls, throwers))

StoreFns == {"addRoot", "removeRoot", "addRoamRoot", "removeRoamRoot", "reset"}

\* ------------------------------------------------------------- the screens
\* The four screens that listen to bridge events, each through two
\* useBridgeEvent hooks, in source order.
Screens == {"agenda", "habits", "roam", "library"}

ScreenEvents(s) ==
    IF s \in {"agenda", "habits"} THEN <<"agendaChanged", "rootsChanged">>
    ELSE <<"documentsChanged", "rootsChanged">>

\* useBridgeEvent's effect: subscribeBridgeEvent(event, listener).
mountScreen(ls, s) ==
    subscribeBridgeEvent(subscribeBridgeEvent(ls, ScreenEvents(s)[1], s),
                         ScreenEvents(s)[2], s)

\* useBridgeEvent's cleanup: unsubscribe().
unmountScreen(ls, s) ==
    unsubscribe(unsubscribe(ls, ScreenEvents(s)[1], s), ScreenEvents(s)[2], s)

\* ------------------------------------------------- the agenda query cache
\* Root lists the store can hold: trimmed, non-empty, without duplicates.
RootNames == {Trim(p) : p \in PathInputs} \ {<<>>}

RootLists ==
    {r \in UNION {[1..n -> RootNames] : n \in 0..Cardinality(RootNames)} :
        \A i, j \in 1..Len(r) : i # j => r[i] # r[j]}

\* queryKey: ['agenda', config.roots.join(':'), config.roamRoots?.join(':') ?? '']
QueryKey(state) == <<state.roots, state.roamRoots>>

AgendaKeys == {<<r, rr>> : r \in RootLists, rr \in RootLists}

NoData == -1

EmptyCache == [k \in AgendaKeys |-> NoData]

\* A screen whose listeners call agendaQuery.refetch().
ObservesAgenda(s) == s \in {"agenda", "habits"}

\* Some mounted screen observes the agenda query.
AgendaObserved(ls) == \E s \in Subscribers0(ls, "rootsChanged") : ObservesAgenda(s)

\* The agenda listeners' reads, in log order: each delivery to an observing
\* screen runs queryFn at once (loadAgendaSnapshot is synchronous), which
\* reads the files as they are at that point of the call: before the native
\* write if the delivery precedes it, after it otherwise.  A later refetch
\* replaces the fetch in flight, so the last read is the one that lands.
RECURSIVE RefetchRead(_, _, _, _)
RefetchRead(log, before, after, sofar) ==
    IF log = <<>> THEN sofar
    ELSE LET e == Head(log) IN
         IF e.kind = "native"
         THEN RefetchRead(Tail(log), after, after, sofar)
         ELSE IF e.kind = "deliver" /\ ObservesAgenda(e.listener)
                   /\ e.name \in {"agendaChanged", "rootsChanged"}
              THEN RefetchRead(Tail(log), before, after, before)
              ELSE RefetchRead(Tail(log), before, after, sofar)

\* ------------------------------------------------ AgendaScreen: groupByDay
\* Number of agenda items in a snapshot.
MaxItems == 4

\* AgendaItem.date after normalizeAgendaItem (item.date ?? null): null, or
\* the calendar date the engine serialised.
Null == "null"

Dates == {"2024-01-05", "2024-01-06", "2024-01-07"}

DateInputs == Dates \cup {Null}

\* An agenda item; id is its position in the snapshot, which tells two items
\* of one date apart.
AgendaItem(id, date) == [id |-> id, date |-> date]

\* The array index a property key denotes, -1 when it denotes none.  Object
\* property enumeration lists array-index keys first, in ascending order.
\* Calendar dates with the dashes left out would be array indices.
ToArrayIndexCompactDates(key) ==
    CASE key = "2024-01-05" -> 20240105
      [] key = "2024-01-06" -> 20240106
      [] key = "2024-01-07" -> 20240107
      [] OTHER -> -1

\* 'YYYY-MM-DD' and 'unscheduled' are not canonical numeric strings.
ToArrayIndex(key) == -1

\* A JS object: its string-keyed properties in creation order.
RECURSIVE PropertyIndex(_, _, _)
PropertyIndex(obj, key, i) ==
    IF i > Len(obj) THEN 0
    ELSE IF obj[i].key = key THEN i
    ELSE PropertyIndex(obj, key, i + 1)

RECURSIVE InsertByIndex(_, _)
InsertByIndex(sorted, e) ==
    IF sorted = <<>> THEN <<e>>
    ELSE IF ToArrayIndex(e.key) < ToArrayIndex(Head(sorted).key)
         THEN <<e>> \o sorted
         ELSE <<Head(sorted)>> \o InsertByIndex(Tail(sorted), e)

RECURSIVE IndexProperties(_, _)
IndexProperties(obj, sorted) ==
    IF obj = <<>> THEN sorted
    ELSE IF ToArrayIndex(Head(obj).key) >= 0
         THEN IndexProperties(Tail(obj), InsertByIndex(sorted, Head(obj)))
         ELSE IndexProperties(Tail(obj), sorted)

RECURSIVE NamedProperties(_)
NamedProperties(obj) ==
    IF obj = <<>> THEN <<>>
    ELSE IF ToArrayIndex(Head(obj).key) >= 0
         THEN NamedProperties(Tail(obj))
         ELSE <<Head(obj)>> \o NamedProperties(Tail(obj))

\* Object.entries: array-index keys ascending, then the others as created.
ObjectEntries(obj) == IndexProperties(obj, <<>>) \o NamedProperties(obj)

\* item.date ?? 'unscheduled'
GroupKey(item) == IF item.date = Null THEN "unscheduled" ELSE item.date

\* The for loop of groupByDay, from item i on.
RECURSIVE GroupLoop(_, _, _)
GroupLoop(list, i, obj) ==
    IF i > Len(list) THEN obj
    ELSE LET key == GroupKey(list[i])
             at  == PropertyIndex(obj, key, 1)
         IN  GroupLoop(list, i + 1,
                 IF at = 0
                 THEN Append(obj, [key |-> key, value |-> <<list[i]>>])
                 ELSE [obj EXCEPT ![at].value = Append(@, list[i])])

groupByDay(list) ==
    LET entries == ObjectEntries(GroupLoop(list, 1, <<>>))
    IN  [e \in 1..Len(entries) |-> [date |-> entries[e].key, list |-> entries[e].value]]

\* ------------------------------------------ LibraryScreen: convertOrgToSlate
\* Number of lines of a document.
MaxLines == 3
\* Number of nodes the native engine parsed from a document.
MaxNodes == 3
\* Number of lines of a document that comes with parsed nodes.
MaxSlateLines == 1

\* Characters matched by [A-Z] among those the documents below use.
UpperCase == {"D", "E", "I", "N", "O", "P", "R", "S", "T"}

PROPERTIES == <<":", "P", "R", "O", "P", "E", "R", "T", "I", "E", "S", ":">>

END == <<":", "E", "N", "D", ":">>

\* The lines documents are made of: the two drawer markers, a property line,
\* headings of depth 1 and 2, two lines of text and the empty line.
LineInputs ==
    { PROPERTIES,
      END,
      <<":", "I", "D", ":", " ", "t">>,
      <<"*", " ", "h">>,
      <<"*", "*", " ", "h">>,
      <<"t">>,
      <<"u">>,
      <<>> }

\* String.prototype.split('\n'), from character i on with `cur` collected.
RECURSIVE SplitFrom(_, _, _)
SplitFrom(s, i, cur) ==
    IF i > Len(s) THEN <<cur>>
    ELSE IF s[i] = "\n" THEN <<cur>> \o SplitFrom(s, i + 1, <<>>)
    ELSE SplitFrom(s, i + 1, Append(cur, s[i]))

split(s) == SplitFrom(s, 1, <<>>)

\* Array.prototype.join(sep)
RECURSIVE join(_, _)
join(parts, sep) ==
    IF parts = <<>> THEN <<>>
    ELSE IF Len(parts) = 1 THEN parts[1]
    ELSE parts[1] \o sep \o join(Tail(parts), sep)

StartsWith(s, pat) == Len(s) >= Len(pat) /\ SubSeq(s, 1, Len(pat)) = pat

\* String.prototype.replace(/pat/g, '') for a literal pattern.
RECURSIVE RemoveAll(_, _)
RemoveAll(s, pat) ==
    IF s = <<>> THEN <<>>
    ELSE IF StartsWith(s, pat) THEN RemoveAll(SubSeq(s, Len(pat) + 1, Len(s)), pat)
    ELSE <<Head(s)>> \o RemoveAll(Tail(s), pat)

\* trimmed.match(/^:[A-Z0-9_+-]+:$/)
MatchesDrawerMarker(trimmed) ==
    /\ Len(trimmed) >= 3
    /\ trimmed[1] = ":"
    /\ trimmed[Len(trimmed)] = ":"
    /\ \A i \in 2..(Len(trimmed) - 1) : trimmed[i] \in UpperCase

\* Length of the longest prefix of s, from character i on, made of
\* characters of the set cs.
RECURSIVE RunLength(_, _, _)
RunLength(s, i, cs) ==
    IF i > Len(s) \/ s[i] \notin cs THEN 0
    ELSE 1 + RunLength(s, i + 1, cs)

\* line.match(/^(\*+)\s+(.*)$/): group 1 is the run of stars, group 2 what
\* follows the run of whitespace after it.
headingMatch(line) ==
    LET stars  == RunLength(line, 1, {"*"})
        spaces == RunLength(line, stars + 1, {" "})
    IN  IF stars >= 1 /\ spaces >= 1
        THEN [matched |-> TRUE, depth |-> stars,
              text |-> SubSeq(line, stars + spaces + 1, Len(line))]
        ELSE [matched |-> FALSE, depth |-> 0, text |-> <<>>]

\* formatText.  The documents above hold no '#' and no '[', so the keyword
\* and link replacements leave them as they are.
formatText(text, reader) ==
    IF ~reader THEN text
    ELSE Trim(RemoveAll(RemoveAll(RemoveAll(text, <<"*">>), PROPERTIES), END))

\* paragraphNode; a paragraph has no depth, written 0 here.
paragraphNode(text) == [type |-> "paragraph", depth |-> 0, text |-> text]

headingNode(depth, text) == [type |-> "heading", depth |-> depth, text |-> text]

ConversionOptions(outline, reader) == [outlineOnly |-> outline, readerMode |-> reader]

\* The state of the loop of convertOrgToSlate.
ConvertStart == [nodes |-> <<>>, paragraphBuffer |-> <<>>, inDrawer |-> FALSE]

pushParagraph(st, options) ==
    IF st.paragraphBuffer = <<>> THEN st
    ELSE [st EXCEPT
            !.nodes = Append(@, paragraphNode(
                          formatText(join(st.paragraphBuffer, <<" ">>),
                                     options.readerMode))),
            !.paragraphBuffer = <<>>]

\* One iteration of the loop over the lines.
ConvertLine(st, line, options) ==
    LET trimmed == Trim(line)
        heading == headingMatch(line)
    IN  IF MatchesDrawerMarker(trimmed) THEN [st EXCEPT !.inDrawer = TRUE]
        ELSE IF trimmed = END /\ st.inDrawer THEN [st EXCEPT !.inDrawer = FALSE]
        ELSE IF st.inDrawer THEN st
        ELSE IF trimmed = <<>> THEN pushParagraph(st, options)
        ELSE IF heading.matched
             THEN [pushParagraph(st, options) EXCEPT
                     !.nodes = Append(@, headingNode(heading.depth,
                                   formatText(heading.text, options.readerMode)))]
        ELSE IF options.outlineOnly THEN st
        ELSE [st EXCEPT !.paragraphBuffer = Append(@, line)]

RECURSIVE ConvertLines(_, _, _, _)
ConvertLines(st, lines, i, options) ==
    IF i > Len(lines) THEN st
    ELSE ConvertLines(ConvertLine(st, lines[i], options), lines, i + 1, options)

\* convertOrgToSlate returning the nodes of the loop as they are, with no
\* paragraph of the raw text when there are none.
convertOrgToSlateNoFallback(text, options) ==
    IF text = <<>> THEN <<paragraphNode(<<>>)>>
    ELSE pushParagraph(ConvertLines(ConvertStart, split(text), 1, options), options).nodes

convertOrgToSlate(text, options) ==
    IF text = <<>> THEN <<paragraphNode(<<>>)>>
    ELSE LET st == pushParagraph(ConvertLines(ConvertStart, split(text), 1, options),
                                 options)
         IN  IF st.nodes = <<>>
             THEN <<paragraphNode(formatText(text, options.readerMode))>>
             ELSE st.nodes

\* ------------------------------------------- slateNodesToDescendants
\* The SlateNode values of a document payload: a heading has depth and text,
\* a list item depth, ordered and text, a paragraph text only.
SlateNodeInputs ==
    { [type |-> "heading", depth |-> 1, text |-> <<"h">>],
      [type |-> "heading", depth |-> 2, text |-> <<" ", "h">>],
      [type |-> "list_item", depth |-> 1, ordered |-> TRUE, text |-> <<"t">>],
      [type |-> "paragraph", text |-> <<"t">>] }

\* nodes.filter((node) => node.type === 'heading')
RECURSIVE FilterHeadings(_)
FilterHeadings(nodes) ==
    IF nodes = <<>> THEN <<>>
    ELSE IF Head(nodes).type = "heading"
         THEN <<Head(nodes)>> \o FilterHeadings(Tail(nodes))
         ELSE FilterHeadings(Tail(nodes))

\* The callback of filtered.map.
ToDescendant(node, options) ==
    IF node.type = "heading"
    THEN headingNode(node.depth, IF options.readerMode THEN Trim(node.text) ELSE node.text)
    ELSE IF node.type = "list_item"
    THEN [type |-> "list_item", depth |-> node.depth, ordered |-> node.ordered,
          text |-> node.text]
    ELSE paragraphNode(node.text)

\* slateNodesToDescendants that maps every node it is given, whatever
\* outlineOnly says.
slateNodesToDescendantsUnfiltered(nodes, fallbackRaw, options) ==
    IF nodes = <<>> THEN convertOrgToSlate(fallbackRaw, options)
    ELSE [i \in 1..Len(nodes) |-> ToDescendant(nodes[i], options)]

slateNodesToDescendants(nodes, fallbackRaw, options) ==
    LET filtered == IF options.outlineOnly THEN FilterHeadings(nodes) ELSE nodes
    IN  IF Len(filtered) = 0 THEN convertOrgToSlate(fallbackRaw, options)
        ELSE [i \in 1..Len(filtered) |-> ToDescendant(filtered[i], options)]

\* The useMemo of LibraryScreen that computes slateNodes.
SlateNodesMemo(rawText, slateValue, options) ==
    IF Len(slateValue) > 0 THEN slateNodesToDescendants(slateValue, rawText, options)
    ELSE convertOrgToSlate(rawText, options)

\* ------------------------------------------------- requestOrgDirectory
\* result.directoryUri: a URI, '', or null / undefined (written as the one
\* element Null, which no string is).
SafUris == {<<"a">>, <<"b">>}

NoUri == <<Null>>

UriInputs == SafUris \cup {<<>>, NoUri}

PickTargets == {"org", "roam"}

\* One call of a pick handler: where it is awaiting, what the picker
\* reported, and what has happened in its requestOrgDirectory so far.
NoFlow == [pc |-> "idle", granted |-> FALSE, uri |-> NoUri, trace |-> <<>>]

\* handlePickOrgRoot / handlePickRoamRoot up to the await of the import.
HandlerStart(isAndroid) ==
    IF ~isAndroid THEN NoFlow ELSE [NoFlow EXCEPT !.pc = "importing"]

\* requestOrgDirectory up to `await loadSafModule()`.
RequestStart(flow) == [flow EXCEPT !.pc = "loading"]

\* requestOrgDirectory up to `await saf.requestDirectoryPermissionsAsync()`.
RequestPicker(flow) == [flow EXCEPT !.pc = "requesting", !.trace = Append(@, "request")]

\* A rejected await: requestOrgDirectory (or the import) throws and the
\* catch of the handler ends the call.
RequestThrow(flow) == [flow EXCEPT !.pc = "idle", !.trace = Append(@, "throw")]

\* requestOrgDirectory that accepts any result with a directory URI.
RequestResultAnyGrant(flow, granted, uri) ==
    LET got == [flow EXCEPT !.granted = granted, !.uri = uri,
                            !.trace = Append(@, "result")]
    IN  IF uri \in {<<>>, NoUri} THEN RequestThrow(got)
        ELSE [got EXCEPT !.pc = "persisting", !.trace = Append(@, "persist")]

\* requestOrgDirectory from the picker's result up to
\* `await saf.persistPermissionsAsync(result.directoryUri)`.
RequestResult(flow, granted, uri) ==
    LET got == [flow EXCEPT !.granted = granted, !.uri = uri,
                            !.trace = Append(@, "result")]
    IN  IF ~granted \/ uri \in {<<>>, NoUri} THEN RequestThrow(got)
        ELSE [got EXCEPT !.pc = "persisting", !.trace = Append(@, "persist")]

\* requestOrgDirectory after persistPermissionsAsync has resolved: it
\* returns the handle, and the handler adds handle.uri as a root.
RequestReturn(flow) ==
    [flow EXCEPT !.pc = "idle", !.trace = @ \o <<"persisted", "return", "addRoot">>]

\* ------------------------------------------------------- RoamScreen
\* Number of documents under the roam roots.
MaxRoamDocs == 2

\* Node ids; NoNode is the null of selectedNodeId and the undefined of find.
NodeIds == 1..MaxRoamDocs

NoNode == 0

\* An id no document has: where an unresolved link points.
MissingId == MaxRoamDocs + 1

\* A roam document: its id and the id its one backlink names (NoNode when
\* its body holds no link).
RoamDocument(id, link) == [id |-> id, link |-> link]

LinkInputs == NodeIds \cup {NoNode, MissingId}

\* roamQuery.data before the query has resolved.
NoGraph == [loaded |-> FALSE, nodes |-> <<>>, links |-> <<>>]

RoamGraph(nodes, links) == [loaded |-> TRUE, nodes |-> nodes, links |-> links]

\* { nodes: [], links: [] }
EmptyGraph == RoamGraph(<<>>, <<>>)

DocIds(docs) == {docs[i].id : i \in 1..Len(docs)}

\* The links of the documents from the i-th on.
RECURSIVE AllLinks(_, _)
AllLinks(docs, i) ==
    IF i > Len(docs) THEN <<>>
    ELSE IF docs[i].link = NoNode THEN AllLinks(docs, i + 1)
    ELSE <<[source |-> docs[i].id, target |-> docs[i].link]>> \o AllLinks(docs, i + 1)

\* build_graph that keeps every link it finds.
build_graphUnresolvedKept(docs) ==
    RoamGraph([i \in 1..Len(docs) |-> docs[i].id], AllLinks(docs, 1))

\* build_graph: one node per document; a link whose target is no node is
\* dropped.
build_graph(docs) ==
    LET Resolved(link) == link.target \in DocIds(docs)
    IN  RoamGraph([i \in 1..Len(docs) |-> docs[i].id],
                  SelectSeq(AllLinks(docs, 1), Resolved))

\* loadRoamGraph(config), with what native load_roam_graph returns.
loadRoamGraph(roamRoots, native) ==
    IF Len(roamRoots) = 0 THEN EmptyGraph ELSE native

\* queryFn of roamQuery
RoamQueryFn(roamRoots, docs) ==
    IF Len(roamRoots) > 0 THEN loadRoamGraph(roamRoots, build_graph(docs))
    ELSE EmptyGraph

\* nodes.find((node) => node.id === id), NoNode for undefined
FindNode(nodes, id) == IF Contains(nodes, id) THEN id ELSE NoNode

\* The selection effect of RoamScreen: what selectedNodeId is once it ran.
SelectionEffect(selected, graph) ==
    IF selected = NoNode /\ graph.loaded /\ Len(graph.nodes) > 0
    THEN graph.nodes[1]
    ELSE selected

\* selectedNode useMemo
selectedNode(selected, graph) ==
    IF selected = NoNode \/ ~graph.loaded THEN NoNode
    ELSE FindNode(graph.nodes, selected)

\* backlinks useMemo
backlinks(selected, graph) ==
    LET node == selectedNode(selected, graph)
        Inbound(link) == link.target = node
        inbound == SelectSeq(graph.links, Inbound)
        mapped == [i \in 1..Len(inbound) |-> FindNode(graph.nodes, inbound[i].source)]
        Defined(n) == n # NoNode
    IN  IF node = NoNode \/ ~graph.loaded THEN <<>>
        ELSE SelectSeq(mapped, Defined)

\* ------------------------------------------------- sync orchestrator
\* Number of jobs the orchestrator runs at a time.
MaxJobs == 4

SyncKinds == {"LocalWatch", "RemoteDelta"}

SyncJob(root, kind) == [root |-> root, kind |-> kind]

NoRequest == [made |-> FALSE, job |-> SyncJob(<<>>, "LocalWatch"), outcome |-> "none"]

\* The jobs in flight for a root and a kind.
InFlight(jobs, root, kind) ==
    {i \in 1..Len(jobs) : jobs[i] = SyncJob(root, kind)}

\* A request that starts a job whatever is in flight.
requestSyncAlwaysStarts(jobs, root, kind) ==
    [jobs |-> Append(jobs, SyncJob(root, kind)), outcome |-> "started"]

\* A request for a sync job of a kind against a root: coalesced into the
\* job of that root and kind in flight, started when there is none.
requestSync(jobs, root, kind) ==
    IF InFlight(jobs, root, kind) # {}
    THEN [jobs |-> jobs, outcome |-> "coalesced"]
    ELSE [jobs |-> Append(jobs, SyncJob(root, kind)), outcome |-> "started"]

\* unregister_root cancels any in-flight job for that root.
RECURSIVE CancelJobs(_, _)
CancelJobs(jobs, root) ==
    IF jobs = <<>> THEN <<>>
    ELSE IF Head(jobs).root = root THEN CancelJobs(Tail(jobs), root)
    ELSE <<Head(jobs)>> \o CancelJobs(Tail(jobs), root)

\* ------------------------------------------ LibraryScreen: the selection
\* Number of documents under the roots.
MaxDocuments == 2

DocumentPaths == {<<"a">>, <<"b">>, <<"c">>}

\* The null of selectedPath (the one element Null, which no string is).
NoPath == <<Null>>

\* !selectedPath
Falsy(path) == path \in {NoPath, <<>>}

\* documentsQuery.data before the query has resolved.
NoList == [loaded |-> FALSE, paths |-> <<>>]

DocumentList(paths) == [loaded |-> TRUE, paths |-> paths]

\* listDocuments(config), with what native list_documents returns; of a
\* DocumentRef the path is kept.
listDocuments(roots, entries) ==
    IF Len(roots) = 0 THEN <<>> ELSE entries

\* queryFn of documentsQuery
DocumentsQueryFn(roots, entries) ==
    IF Len(roots) = 0 THEN DocumentList(<<>>)
    ELSE DocumentList(listDocuments(roots, entries))

\* documentsQuery.data[0]?.path ?? null
FirstPath(data) == IF Len(data.paths) > 0 THEN data.paths[1] ELSE NoPath

\* One render of LibraryScreen with the first selection effect only.
LibraryEffectsFirstOnly(selected, data) ==
    IF Falsy(selected) /\ data.loaded /\ Len(data.paths) > 0
    THEN data.paths[1]
    ELSE selected

\* One render of LibraryScreen: the two selection effects run in order on
\* the selectedPath of that render; what selectedPath is set to.
LibraryEffects(selected, data) ==
    LET first  == IF Falsy(selected) /\ data.loaded /\ Len(data.paths) > 0
                  THEN data.paths[1]
                  ELSE selected
    IN  IF data.loaded /\ ~Falsy(selected) /\ ~Contains(data.paths, selected)
        THEN FirstPath(data)
        ELSE first

\* The renders that follow one another until the effects set nothing new.
RECURSIVE LibrarySettle(_, _)
LibrarySettle(selected, data) ==
    LET next == LibraryEffects(selected, data)
    IN  IF next = selected THEN selected ELSE LibrarySettle(next, data)

\* ------------------------------------------------- the bridge as a machine
NoSync == [synced |-> FALSE, passed |-> NoConfig, seen |-> InitialStore]

StoreInit ==
    /\ store = InitialStore
    /\ nativeConfig = NoConfig
    /\ lastSync = NoSync
    /\ allCompleted = TRUE

NoItem == [key |-> <<<<>>, <<>>>>, ver |-> NoData]

NoApply == [called |-> FALSE, item |-> NoItem, key |-> <<<<>>, <<>>>>, cached |-> NoData]

NoMutation == [called |-> FALSE, key |-> <<<<>>, <<>>>>, ver |-> NoData]

AgendaInit ==
    /\ fileVer = 0
    /\ cache = EmptyCache
    /\ pending = EmptyCache
    /\ pickerItem = NoItem
    /\ saf = "idle"
    /\ lastApply = NoApply
    /\ lastMutation = NoMutation

ViewInit ==
    /\ items = <<>>
    /\ groups = groupByDay(<<>>)
    /\ raw = <<>>
    /\ slate = <<>>
    /\ outlineOnly = FALSE
    /\ readerMode = FALSE
    /\ slateNodes = SlateNodesMemo(<<>>, <<>>, ConversionOptions(FALSE, FALSE))

LibraryInit ==
    /\ libraryDocs = <<>>
    /\ documents = NoList
    /\ selectedPath = NoPath

SyncInit ==
    /\ syncRoots = {}
    /\ syncJobs = <<>>
    /\ lastRequest = NoRequest

RoamInit ==
    /\ roamDocs = <<>>
    /\ roamGraph = NoGraph
    /\ selectedNodeId = NoNode

SafInit ==
    /\ safFlow = [t \in PickTargets |-> NoFlow]
    /\ persistedUris = {}

\* A use of useBridgeEvent that is not mounted.
NoHook == [mounted |-> FALSE, event |-> "", listener |-> 0]

HookUses == 1..MaxHooks

HookInit ==
    /\ handles = <<>>
    /\ hooks = [k \in HookUses |-> NoHook]

Init ==
    /\ bridgeListeners = EmptyListeners
    /\ callLog = <<>>
    /\ StoreInit
    /\ AgendaInit
    /\ ViewInit
    /\ SafInit
    /\ RoamInit
    /\ SyncInit
    /\ LibraryInit
    /\ HookInit

\* The listeners subscribed to some event: the ones a call can invoke.
Subscribed == UNION {Subscribers(e) : e \in BridgeEvent}

\* The number of subscriptions alive.
Subscriptions ==
    Len(bridgeListeners["agendaChanged"]) + Len(bridgeListeners["documentsChanged"])
        + Len(bridgeListeners["rootsChanged"])

Subscribe ==
    \E e \in BridgeEvent, l \in Listeners :
        /\ Subscriptions < MaxSubscriptions
        /\ bridgeListeners' = subscribeBridgeEvent(bridgeListeners, e, l)
        /\ callLog' = <<>>
        /\ UNCHANGED <<viewVars, flowVars>>
        /\ UNCHANGED <<storeVars, agendaVars>>

Unsubscribe ==
    \E e \in BridgeEvent, l \in Listeners :
        /\ Contains(bridgeListeners[e], l)
        /\ bridgeListeners' = unsubscribe(bridgeListeners, e, l)
        /\ callLog' = <<>>
        /\ UNCHANGED <<viewVars, flowVars>>
        /\ UNCHANGED <<storeVars, agendaVars>>

CallCompleteAgendaItem ==
    \E rootsEmpty \in BOOLEAN, native \in NativeOutcome, throwers \in SUBSET Subscribed :
        /\ callLog' = completeAgendaItem(rootsEmpty, native, bridgeListeners, throwers)
        /\ UNCHANGED <<bridgeListeners, storeVars, agendaVars>>
        /\ UNCHANGED <<viewVars, flowVars>>

CallSetAgendaStatus ==
    \E rootsEmpty \in BOOLEAN, native \in NativeOutcome, throwers \in SUBSET Subscribed :
        /\ callLog' = setAgendaStatus(rootsEmpty, native, bridgeListeners, throwers)
        /\ UNCHANGED <<bridgeListeners, storeVars, agendaVars>>
        /\ UNCHANGED <<viewVars, flowVars>>

CallAppendCaptureEntry ==
    \E rootsEmpty \in BOOLEAN, native \in NativeOutcome, throwers \in SUBSET Subscribed :
        /\ callLog' = appendCaptureEntry(rootsEmpty, native, bridgeListeners, throwers)
        /\ UNCHANGED <<bridgeListeners, storeVars, agendaVars>>
        /\ UNCHANGED <<viewVars, flowVars>>

CallSetRoots ==
    \E native \in NativeOutcome, throwers \in SUBSET Subscribed :
        /\ callLog' = setRoots(native, bridgeListeners, throwers)
        /\ UNCHANGED <<bridgeListeners, storeVars, agendaVars>>
        /\ UNCHANGED <<viewVars, flowVars>>

Next ==
    \/ Subscribe
    \/ Unsubscribe
    \/ CallCompleteAgendaItem
    \/ CallSetAgendaStatus
    \/ CallAppendCaptureEntry
    \/ CallSetRoots

Spec == Init /\ [][Next]_vars

\* ------------------------------------------------- the store as a machine
\* A store call, applied: zustand's set() commits what the updater returned
\* once the updater has returned.
ApplyStore(res) ==
    /\ store' = res.state
    /\ nativeConfig' = IF res.passed.called /\ ~res.threw THEN res.passed ELSE nativeConfig
    /\ lastSync' = [synced |-> res.synced, passed |-> res.passed, seen |-> res.seen]
    /\ allCompleted' = (allCompleted /\ ~res.threw)
    /\ callLog' = res.log
    /\ UNCHANGED bridgeListeners
    /\ UNCHANGED viewVars

StoreStep(res) == ApplyStore(res) /\ UNCHANGED <<agendaVars, flowVars>>

\* Which listeners throw when invoked during a store call: none of them, or
\* every one of them.
Throwing == {{}, Screens}

MountScreen ==
    \E s \in Screens :
        /\ ~Contains(bridgeListeners["rootsChanged"], s)
        /\ Len(bridgeListeners["rootsChanged"]) < MaxMounted
        /\ bridgeListeners' = mountScreen(bridgeListeners, s)
        /\ callLog' = <<>>
        /\ UNCHANGED <<viewVars, flowVars>>
        /\ lastSync' = NoSync
        /\ UNCHANGED <<store, nativeConfig, allCompleted, agendaVars>>

UnmountScreen ==
    \E s \in Screens :
        /\ Contains(bridgeListeners["rootsChanged"], s)
        /\ bridgeListeners' = unmountScreen(bridgeListeners, s)
        /\ callLog' = <<>>
        /\ UNCHANGED <<viewVars, flowVars>>
        /\ lastSync' = NoSync
        /\ UNCHANGED <<store, nativeConfig, allCompleted, agendaVars>>

AddRoot ==
    \E path \in PathInputs, native \in NativeOutcome, throwers \in Throwing :
        StoreStep(addRoot(store, path, native, bridgeListeners, throwers))

RemoveRoot ==
    \E path \in PathInputs, native \in NativeOutcome, throwers \in Throwing :
        StoreStep(removeRoot(store, path, native, bridgeListeners, throwers))

AddRoamRoot ==
    \E path \in PathInputs, native \in NativeOutcome, throwers \in Throwing :
        StoreStep(addRoamRoot(store, path, native, bridgeListeners, throwers))

RemoveRoamRoot ==
    \E path \in PathInputs, native \in NativeOutcome, throwers \in Throwing :
        StoreStep(removeRoamRoot(store, path, native, bridgeListeners, throwers))

Reset ==
    \E native \in NativeOutcome, throwers \in Throwing :
        StoreStep(reset(store, native, bridgeListeners, throwers))

StoreNext ==
    \/ MountScreen
    \/ UnmountScreen
    \/ AddRoot
    \/ RemoveRoot
    \/ AddRoamRoot
    \/ RemoveRoamRoot
    \/ Reset

SpecStore == Init /\ [][StoreNext]_vars


\* ------------------------------------------ the agenda screens as a machine
\* Every promise started so far has resolved.  Promise callbacks run before
\* the next event is taken, so a handler starts only in such a state.
Drained == \A k \in AgendaKeys : pending[k] = NoData

\* The user can touch the app: no promise callback is due, and the system's
\* directory picker is not in front of it.
Interactive == Drained /\ saf # "picking"

Mounted(s) == Contains(bridgeListeners["rootsChanged"], s)

\* What a screen's mutation handler does around its bridge call, whose log is
\* given: the native call, if it returned, wrote the files; the refetches the
\* listeners started are in flight; and if the bridge function returned,
\* queryClient.setQueryData(key, snapshot) stores the snapshot it returned.
MutationEffect(log, key) ==
    LET newVer == IF HasKind(log, "native") THEN fileVer + 1 ELSE fileVer
        read   == RefetchRead(log, fileVer, newVer, NoData)
    IN  /\ fileVer' = newVer
        /\ pending' = IF read = NoData THEN pending ELSE [pending EXCEPT ![key] = read]
        /\ cache' = IF Returned(log) THEN [cache EXCEPT ![key] = newVer] ELSE cache
        /\ lastMutation' = IF Returned(log)
                           THEN [called |-> TRUE, key |-> key, ver |-> newVer]
                           ELSE lastMutation
        /\ callLog' = log
        /\ UNCHANGED <<viewVars, flowVars>>

\* What a store call does to the agenda query: listeners that ran inside the
\* updater refetch under the key of the store state they saw; once set() has
\* committed, the screens render with the new key and, if it differs, the
\* query of that key is fetched.
RootChangeEffect(res) ==
    LET oldKey == QueryKey(res.seen)
        newKey == QueryKey(res.state)
        read   == RefetchRead(res.log, fileVer, fileVer, NoData)
        first  == IF read = NoData THEN pending ELSE [pending EXCEPT ![oldKey] = read]
    IN  /\ pending' = IF newKey # oldKey /\ AgendaObserved(bridgeListeners)
                      THEN [first EXCEPT ![newKey] = fileVer]
                      ELSE first
        /\ UNCHANGED <<fileVer, cache, lastApply, lastMutation>>
        /\ UNCHANGED flowVars

\* A screen with useQuery(['agenda', ...]) mounts: its two useBridgeEvent
\* effects subscribe and the query is fetched.
MountAgendaObserver ==
    \E s \in {"agenda", "habits"} :
        /\ Interactive
        /\ pickerItem = NoItem
        /\ ~Mounted(s)
        /\ bridgeListeners' = mountScreen(bridgeListeners, s)
        /\ pending' = [pending EXCEPT ![QueryKey(store)] = fileVer]
        /\ callLog' = <<>>
        /\ UNCHANGED <<viewVars, flowVars>>
        /\ lastSync' = NoSync
        /\ UNCHANGED <<store, nativeConfig, allCompleted>>
        /\ UNCHANGED <<fileVer, cache, pickerItem, saf, lastApply, lastMutation>>

\* The promise of a fetch resolves: its result becomes the query's data.
ResolveFetch ==
    \E k \in AgendaKeys :
        /\ pending[k] # NoData
        /\ cache' = [cache EXCEPT ![k] = pending[k]]
        /\ pending' = [pending EXCEPT ![k] = NoData]
        /\ callLog' = <<>>
        /\ UNCHANGED <<viewVars, flowVars>>
        /\ lastSync' = NoSync
        /\ UNCHANGED <<bridgeListeners, store, nativeConfig, allCompleted>>
        /\ UNCHANGED <<fileVer, pickerItem, saf, lastApply, lastMutation>>

\* The files change on disk without the app (sync, another editor).
ExternalEdit ==
    /\ fileVer < MaxVersion
    /\ fileVer' = fileVer + 1
    /\ callLog' = <<>>
    /\ UNCHANGED <<viewVars, flowVars>>
    /\ lastSync' = NoSync
    /\ UNCHANGED <<bridgeListeners, store, nativeConfig, allCompleted>>
    /\ UNCHANGED <<cache, pending, pickerItem, saf, lastApply, lastMutation>>

\* RefreshControl onRefresh: agendaQuery.refetch().
PullToRefresh ==
    /\ Interactive
    /\ pickerItem = NoItem
    /\ Mounted("agenda")
    /\ pending' = [pending EXCEPT ![QueryKey(store)] = fileVer]
    /\ callLog' = <<>>
    /\ UNCHANGED <<viewVars, flowVars>>
    /\ lastSync' = NoSync
    /\ UNCHANGED <<bridgeListeners, store, nativeConfig, allCompleted>>
    /\ UNCHANGED <<fileVer, cache, pickerItem, saf, lastApply, lastMutation>>

\* The status button of an item of the rendered list: setPickerItem(agenda).
\* The list shows the items of agendaQuery.data, the cached snapshot.
OpenPicker ==
    /\ Interactive
    /\ pickerItem = NoItem
    /\ Mounted("agenda")
    /\ store.roots # <<>>
    /\ cache[QueryKey(store)] # NoData
    /\ pickerItem' = [key |-> QueryKey(store), ver |-> cache[QueryKey(store)]]
    /\ callLog' = <<>>
    /\ UNCHANGED <<viewVars, flowVars>>
    /\ lastSync' = NoSync
    /\ UNCHANGED <<bridgeListeners, store, nativeConfig, allCompleted>>
    /\ UNCHANGED <<fileVer, cache, pending, saf, lastApply, lastMutation>>

\* onRequestClose / a press on the overlay: setPickerItem(null).
ClosePicker ==
    /\ Interactive
    /\ pickerItem # NoItem
    /\ pickerItem' = NoItem
    /\ callLog' = <<>>
    /\ UNCHANGED <<viewVars, flowVars>>
    /\ lastSync' = NoSync
    /\ UNCHANGED <<bridgeListeners, store, nativeConfig, allCompleted>>
    /\ UNCHANGED <<fileVer, cache, pending, saf, lastApply, lastMutation>>

\* A status option of the picker: setPickerItem(null); applyStatus(pickerItem,
\* option.value).  applyStatus passes item.path and item.headline_line of the
\* item it was given.
ChooseStatus ==
    \E native \in NativeOutcome :
        /\ Interactive
        /\ pickerItem # NoItem
        /\ store.roots # <<>>
        /\ fileVer < MaxVersion
        /\ MutationEffect(setAgendaStatus(FALSE, native, bridgeListeners, {}),
                          QueryKey(store))
        /\ lastApply' = [called |-> TRUE, item |-> pickerItem,
                         key |-> QueryKey(store), cached |-> cache[QueryKey(store)]]
        /\ pickerItem' = NoItem
        /\ lastSync' = NoSync
        /\ UNCHANGED <<bridgeListeners, store, nativeConfig, allCompleted, saf>>

\* CaptureScreen's handleSubmit with an Org root configured.
CaptureSubmit ==
    \E native \in NativeOutcome :
        /\ Interactive
        /\ pickerItem = NoItem
        /\ store.roots # <<>>
        /\ fileVer < MaxVersion
        /\ MutationEffect(appendCaptureEntry(FALSE, native, bridgeListeners, {}),
                          QueryKey(store))
        /\ lastSync' = NoSync
        /\ UNCHANGED <<bridgeListeners, store, nativeConfig, allCompleted>>
        /\ UNCHANGED <<pickerItem, saf, lastApply>>

\* LibraryScreen's handleAddRoot: addRoot(newRoot.trim()) unless that is empty.
LibraryAddRoot ==
    \E path \in PathInputs, native \in NativeOutcome :
        /\ Interactive
        /\ pickerItem = NoItem
        /\ Trim(path) # <<>>
        /\ LET res == addRoot(store, Trim(path), native, bridgeListeners, {})
           IN  ApplyStore(res) /\ RootChangeEffect(res)
        /\ UNCHANGED <<pickerItem, saf>>

\* handlePickOrgRoot up to its first await: the saf module is being imported.
PickStart ==
    /\ Interactive
    /\ pickerItem = NoItem
    /\ saf = "idle"
    /\ saf' = "importing"
    /\ callLog' = <<>>
    /\ UNCHANGED <<viewVars, flowVars>>
    /\ lastSync' = NoSync
    /\ UNCHANGED <<bridgeListeners, store, nativeConfig, allCompleted>>
    /\ UNCHANGED <<fileVer, cache, pending, pickerItem, lastApply, lastMutation>>

\* handlePickOrgRoot between its awaits: the import has resolved and
\* requestOrgDirectory() has put the system's directory picker in front.
ImportResolve ==
    /\ Drained
    /\ saf = "importing"
    /\ saf' = "picking"
    /\ callLog' = <<>>
    /\ UNCHANGED <<viewVars, flowVars>>
    /\ lastSync' = NoSync
    /\ UNCHANGED <<bridgeListeners, store, nativeConfig, allCompleted>>
    /\ UNCHANGED <<fileVer, cache, pending, pickerItem, lastApply, lastMutation>>

\* handlePickOrgRoot after its await: addRoot(handle.uri).
PickResolve ==
    \E uri \in RootNames, native \in NativeOutcome :
        /\ Drained
        /\ saf = "picking"
        /\ saf' = "idle"
        /\ LET res == addRoot(store, uri, native, bridgeListeners, {})
           IN  ApplyStore(res) /\ RootChangeEffect(res)
        /\ UNCHANGED pickerItem

\* handlePickOrgRoot's catch: the picker was cancelled or failed.
PickReject ==
    /\ Drained
    /\ saf # "idle"
    /\ saf' = "idle"
    /\ callLog' = <<>>
    /\ UNCHANGED <<viewVars, flowVars>>
    /\ lastSync' = NoSync
    /\ UNCHANGED <<bridgeListeners, store, nativeConfig, allCompleted>>
    /\ UNCHANGED <<fileVer, cache, pending, pickerItem, lastApply, lastMutation>>

AgendaNext ==
    \/ MountAgendaObserver
    \/ ResolveFetch
    \/ ExternalEdit
    \/ PullToRefresh
    \/ OpenPicker
    \/ ClosePicker
    \/ ChooseStatus
    \/ CaptureSubmit
    \/ LibraryAddRoot
    \/ PickStart
    \/ ImportResolve
    \/ PickResolve
    \/ PickReject

SpecAgenda == Init /\ [][AgendaNext]_vars

\* ----------------------------------------------- the two views as machines
\* The agenda query delivers a snapshot that lists one more item; the
\* useMemo of AgendaScreen regroups.
SnapshotGrows ==
    \E date \in DateInputs :
        /\ Len(items) < MaxItems
        /\ items' = Append(items, AgendaItem(Len(items) + 1, date))
        /\ groups' = groupByDay(items')
        /\ UNCHANGED <<bridgeVars, storeVars, agendaVars, flowVars>>
        /\ UNCHANGED <<raw, slate, outlineOnly, readerMode, slateNodes>>

\* The agenda query delivers { items: [] } (no root configured).
SnapshotEmpties ==
    /\ items # <<>>
    /\ items' = <<>>
    /\ groups' = groupByDay(items')
    /\ UNCHANGED <<bridgeVars, storeVars, agendaVars, flowVars>>
    /\ UNCHANGED <<raw, slate, outlineOnly, readerMode, slateNodes>>

GroupNext == SnapshotGrows \/ SnapshotEmpties

SpecGroup == Init /\ [][GroupNext]_vars

\* The document query delivers the document with one more line; the useMemo
\* of LibraryScreen converts it.
NumLines(text) == Len(split(text))

DocumentGrows ==
    \E line \in LineInputs, fresh \in BOOLEAN :
        /\ fresh => raw = <<>>
        /\ raw' = IF fresh THEN line ELSE raw \o <<"\n">> \o line
        /\ NumLines(raw') <= MaxLines
        /\ slate # <<>> => NumLines(raw') <= MaxSlateLines
        /\ slateNodes' = SlateNodesMemo(raw', slate, ConversionOptions(outlineOnly, readerMode))
        /\ UNCHANGED <<bridgeVars, storeVars, agendaVars, flowVars>>
        /\ UNCHANGED <<items, groups, slate, outlineOnly, readerMode>>

\* <Switch value={readerMode} onValueChange={setReaderMode} />
ToggleReaderMode ==
    /\ readerMode' = ~readerMode
    /\ slateNodes' = SlateNodesMemo(raw, slate, ConversionOptions(outlineOnly, readerMode'))
    /\ UNCHANGED <<bridgeVars, storeVars, agendaVars, flowVars>>
    /\ UNCHANGED <<items, groups, raw, slate, outlineOnly>>

\* <Switch value={outlineOnly} onValueChange={setOutlineOnly} />
ToggleOutlineOnly ==
    /\ outlineOnly' = ~outlineOnly
    /\ slateNodes' = SlateNodesMemo(raw, slate, ConversionOptions(outlineOnly', readerMode))
    /\ UNCHANGED <<bridgeVars, storeVars, agendaVars, flowVars>>
    /\ UNCHANGED <<items, groups, raw, slate, readerMode>>

SlateNext == DocumentGrows \/ ToggleReaderMode \/ ToggleOutlineOnly

SpecSlate == Init /\ [][SlateNext]_vars

\* The document query delivers the document with one more node parsed by the
\* native engine; the useMemo of LibraryScreen maps the nodes.
SlateGrows ==
    \E node \in SlateNodeInputs :
        /\ Len(slate) < MaxNodes
        /\ NumLines(raw) <= MaxSlateLines
        /\ slate' = Append(slate, node)
        /\ slateNodes' = SlateNodesMemo(raw, slate', ConversionOptions(outlineOnly, readerMode))
        /\ UNCHANGED <<bridgeVars, storeVars, agendaVars, flowVars>>
        /\ UNCHANGED <<items, groups, raw, outlineOnly, readerMode>>

DocumentNext == DocumentGrows \/ SlateGrows \/ ToggleReaderMode \/ ToggleOutlineOnly

SpecDocument == Init /\ [][DocumentNext]_vars

\* ------------------------------------------ the directory picker as a machine
\* What a step of a pick handler that calls no store function leaves alone.
SafFrame ==
    /\ callLog' = <<>>
    /\ lastSync' = NoSync
    /\ UNCHANGED <<bridgeListeners, store, nativeConfig, allCompleted>>
    /\ UNCHANGED <<agendaVars, viewVars, roamVars, syncVars, libraryVars, hookVars>>

\* The user presses "Pick org root" / "Pick roam root".
PressPick ==
    \E t \in PickTargets, isAndroid \in BOOLEAN :
        /\ safFlow[t].pc = "idle"
        /\ safFlow' = [safFlow EXCEPT ![t] = HandlerStart(isAndroid)]
        /\ UNCHANGED persistedUris
        /\ SafFrame

\* import('@postep/bridge/platform/android/saf') resolves.
SafImported ==
    \E t \in PickTargets :
        /\ safFlow[t].pc = "importing"
        /\ safFlow' = [safFlow EXCEPT ![t] = RequestStart(@)]
        /\ UNCHANGED persistedUris
        /\ SafFrame

\* loadSafModule() resolves.
SafLoaded ==
    \E t \in PickTargets :
        /\ safFlow[t].pc = "loading"
        /\ safFlow' = [safFlow EXCEPT ![t] = RequestPicker(@)]
        /\ UNCHANGED persistedUris
        /\ SafFrame

\* requestDirectoryPermissionsAsync resolves with the picker's result.
PickerResolves ==
    \E t \in PickTargets, granted \in BOOLEAN, uri \in UriInputs :
        /\ safFlow[t].pc = "requesting"
        /\ safFlow' = [safFlow EXCEPT ![t] = RequestResult(@, granted, uri)]
        /\ UNCHANGED persistedUris
        /\ SafFrame

\* persistPermissionsAsync resolves: requestOrgDirectory returns and the
\* handler calls addRoot(handle.uri) / addRoamRoot(handle.uri).
PersistResolves ==
    \E t \in PickTargets, native \in NativeOutcome :
        /\ safFlow[t].pc = "persisting"
        /\ safFlow' = [safFlow EXCEPT ![t] = RequestReturn(@)]
        /\ persistedUris' = persistedUris \cup {safFlow[t].uri}
        /\ ApplyStore(IF t = "org"
                      THEN addRoot(store, safFlow[t].uri, native, bridgeListeners, {})
                      ELSE addRoamRoot(store, safFlow[t].uri, native, bridgeListeners, {}))
        /\ UNCHANGED <<agendaVars, roamVars, syncVars, libraryVars, hookVars>>

\* The promise a handler is awaiting rejects (the import, the module, the
\* picker or persistPermissionsAsync fails).
AwaitRejects ==
    \E t \in PickTargets :
        /\ safFlow[t].pc # "idle"
        /\ safFlow' = [safFlow EXCEPT ![t] = RequestThrow(@)]
        /\ UNCHANGED persistedUris
        /\ SafFrame

SafNext ==
    \/ PressPick
    \/ SafImported
    \/ SafLoaded
    \/ PickerResolves
    \/ PersistResolves
    \/ AwaitRejects

SpecSaf == Init /\ [][SafNext]_vars

\* ------------------------------------------------- RoamScreen as a machine
RoamFrame ==
    /\ UNCHANGED <<bridgeVars, storeVars, agendaVars, viewVars, safVars, syncVars, libraryVars, hookVars>>

\* The screen shows what the roam roots hold now (or nothing yet).
RoamFresh ==
    ~roamGraph.loaded \/ roamGraph = RoamQueryFn(store.roamRoots, roamDocs)

\* A document appears under the roam roots.
RoamDocumentAppears ==
    \E id \in NodeIds \ DocIds(roamDocs), link \in LinkInputs :
        /\ RoamFresh
        /\ Len(roamDocs) < MaxRoamDocs
        /\ roamDocs' = Append(roamDocs, RoamDocument(id, link))
        /\ UNCHANGED <<roamGraph, selectedNodeId>>
        /\ RoamFrame

\* A document under the roam roots is deleted.
RoamDocumentDisappears ==
    \E i \in 1..Len(roamDocs) :
        /\ RoamFresh
        /\ roamDocs' = SubSeq(roamDocs, 1, i - 1) \o SubSeq(roamDocs, i + 1, Len(roamDocs))
        /\ UNCHANGED <<roamGraph, selectedNodeId>>
        /\ RoamFrame

\* roamQuery resolves (first fetch, or the refetch of a bridge event); the
\* screen renders and the selection effect runs.
RoamReload ==
    /\ roamGraph' = RoamQueryFn(store.roamRoots, roamDocs)
    /\ roamGraph' # roamGraph
    /\ selectedNodeId' = SelectionEffect(selectedNodeId, roamGraph')
    /\ UNCHANGED roamDocs
    /\ RoamFrame

\* onPress of a node chip: setSelectedNodeId(item.id); the effect that runs
\* after it finds an id selected.
PressNode ==
    \E i \in 1..Len(roamGraph.nodes) :
        /\ selectedNodeId' = SelectionEffect(roamGraph.nodes[i], roamGraph)
        /\ selectedNodeId' # selectedNodeId
        /\ UNCHANGED <<roamDocs, roamGraph>>
        /\ RoamFrame

\* The roam roots change: the query key changes and the query of the new
\* key has no data yet.
RoamRootsChange ==
    \E uri \in SafUris :
        /\ RoamFresh
        /\ ApplyStore(IF Contains(store.roamRoots, uri)
                      THEN removeRoamRoot(store, uri, "ok", bridgeListeners, {})
                      ELSE addRoamRoot(store, uri, "ok", bridgeListeners, {}))
        /\ roamGraph' = NoGraph
        /\ UNCHANGED <<roamDocs, selectedNodeId>>
        /\ UNCHANGED <<agendaVars, safVars, syncVars, libraryVars, hookVars>>

RoamNext ==
    \/ RoamDocumentAppears
    \/ RoamDocumentDisappears
    \/ RoamReload
    \/ PressNode
    \/ RoamRootsChange

SpecRoam == Init /\ [][RoamNext]_vars

\* ------------------------------------------ the orchestrator as a machine
SyncFrame ==
    /\ UNCHANGED <<bridgeVars, storeVars, agendaVars, viewVars, safVars, roamVars, libraryVars, hookVars>>

\* register_root
RegisterRoot ==
    \E root \in RootNames \ syncRoots :
        /\ syncRoots' = syncRoots \cup {root}
        /\ lastRequest' = NoRequest
        /\ UNCHANGED syncJobs
        /\ SyncFrame

\* unregister_root
UnregisterRoot ==
    \E root \in syncRoots :
        /\ syncRoots' = syncRoots \ {root}
        /\ syncJobs' = CancelJobs(syncJobs, root)
        /\ lastRequest' = NoRequest
        /\ SyncFrame

\* A LocalWatch or RemoteDelta request against a registered root, arriving
\* while any of the jobs started earlier are still running.
RequestSync ==
    \E root \in syncRoots, kind \in SyncKinds :
        LET res == requestSync(syncJobs, root, kind)
        IN  /\ Len(res.jobs) <= MaxJobs
            /\ syncJobs' = res.jobs
            /\ lastRequest' = [made |-> TRUE, job |-> SyncJob(root, kind),
                               outcome |-> res.outcome]
            /\ UNCHANGED syncRoots
            /\ SyncFrame

\* A job in flight finishes.
JobCompletes ==
    \E i \in 1..Len(syncJobs) :
        /\ syncJobs' = SubSeq(syncJobs, 1, i - 1) \o SubSeq(syncJobs, i + 1, Len(syncJobs))
        /\ lastRequest' = NoRequest
        /\ UNCHANGED syncRoots
        /\ SyncFrame

SyncNext ==
    \/ RegisterRoot
    \/ UnregisterRoot
    \/ RequestSync
    \/ JobCompletes

SpecSync == Init /\ [][SyncNext]_vars

\* ------------------------------------- the Library selection as a machine
LibraryFrame ==
    /\ UNCHANGED <<bridgeVars, storeVars, agendaVars, viewVars, safVars, roamVars, syncVars, hookVars>>

\* A document appears under the roots.
DocumentAppears ==
    \E path \in DocumentPaths \ SeqToSet(libraryDocs) :
        /\ Len(libraryDocs) < MaxDocuments
        /\ libraryDocs' = Append(libraryDocs, path)
        /\ UNCHANGED <<documents, selectedPath>>
        /\ LibraryFrame

\* A document under the roots is deleted.
DocumentDisappears ==
    \E i \in 1..Len(libraryDocs) :
        /\ libraryDocs' = SubSeq(libraryDocs, 1, i - 1)
                              \o SubSeq(libraryDocs, i + 1, Len(libraryDocs))
        /\ UNCHANGED <<documents, selectedPath>>
        /\ LibraryFrame

\* documentsQuery resolves (first fetch, or the refetch after a bridge
\* event invalidated it); the screen renders and the selection effects run.
DocumentsReload ==
    /\ documents' = DocumentsQueryFn(store.roots, libraryDocs)
    /\ documents' # documents
    /\ selectedPath' = LibrarySettle(selectedPath, documents')
    /\ UNCHANGED libraryDocs
    /\ LibraryFrame

\* onPress of a document chip: setSelectedPath(item.path), and the effects
\* of the renders after it.
PressDocument ==
    \E i \in 1..Len(documents.paths) :
        /\ selectedPath' = LibrarySettle(documents.paths[i], documents)
        /\ selectedPath' # selectedPath
        /\ UNCHANGED <<libraryDocs, documents>>
        /\ LibraryFrame

\* The roots change: the query key changes and the query of the new key
\* has no data yet.
LibraryRootsChange ==
    \E uri \in SafUris :
        /\ ApplyStore(IF Contains(store.roots, uri)
                      THEN removeRoot(store, uri, "ok", bridgeListeners, {})
                      ELSE addRoot(store, uri, "ok", bridgeListeners, {}))
        /\ documents' = NoList
        /\ selectedPath' = LibrarySettle(selectedPath, documents')
        /\ UNCHANGED libraryDocs
        /\ UNCHANGED <<agendaVars, safVars, roamVars, syncVars, hookVars>>

LibraryNext ==
    \/ DocumentAppears
    \/ DocumentDisappears
    \/ DocumentsReload
    \/ PressDocument
    \/ LibraryRootsChange

SpecLibrary == Init /\ [][LibraryNext]_vars


\* ------------------------------------------- subscriptions as a machine
\* What a caller of emitBridgeEvent(event) observes: the listeners the
\* forEach invokes, between the entry and the return of the call.
EmitCall(ls, event, throwers) ==
    <<Entry("enter", event, 0, FALSE)>>
    \o emitBridgeEvent(ls[event], event, throwers)
    \o <<Entry("return", event, 0, FALSE)>>

\* The closure subscribeBridgeEvent returns: it holds the bucket's event and
\* the listener it was made for.
Handle(event, listener) == [event |-> event, listener |-> listener, called |-> FALSE]

\* The handle has not been called: its subscription is live.
Live(h) == ~h.called

SubscriptionFrame ==
    UNCHANGED <<storeVars, agendaVars, viewVars, safVars, roamVars, syncVars, libraryVars>>

\* subscribeBridgeEvent(e, l), the caller keeping the function it returns.
SubscribeHandle ==
    \E e \in BridgeEvent, l \in Listeners :
        /\ Len(handles) < MaxHandles
        /\ bridgeListeners' = subscribeBridgeEvent(bridgeListeners, e, l)
        /\ handles' = Append(handles, Handle(e, l))
        /\ callLog' = <<>>
        /\ UNCHANGED hooks
        /\ SubscriptionFrame

\* A call of a function subscribeBridgeEvent returned, be it the first call or
\* a later one: bucket.delete(listener).
CallUnsubscribe ==
    \E h \in 1..Len(handles) :
        /\ bridgeListeners' = unsubscribe(bridgeListeners, handles[h].event, handles[h].listener)
        /\ handles' = [handles EXCEPT ![h].called = TRUE]
        /\ callLog' = <<>>
        /\ UNCHANGED hooks
        /\ SubscriptionFrame

\* emitBridgeEvent(e); the listeners either all return or all throw.
EmitEvent ==
    \E e \in BridgeEvent, throwers \in {{}, Listeners} :
        /\ callLog' = EmitCall(bridgeListeners, e, throwers)
        /\ UNCHANGED <<bridgeListeners, handles, hooks>>
        /\ SubscriptionFrame

SubscriptionNext ==
    \/ SubscribeHandle
    \/ CallUnsubscribe
    \/ EmitEvent

SpecSubscriptions == Init /\ [][SubscriptionNext]_vars

\* ------------------------------------------------ useBridgeEvent as a machine
\* The effect of useBridgeEvent: subscribeBridgeEvent(event, listener).
useBridgeEventEffect(ls, event, listener) == subscribeBridgeEvent(ls, event, listener)

\* The cleanup the effect returned: () => unsubscribe(), for the event and
\* listener of the render that ran the effect.
useBridgeEventCleanup(ls, hook) == unsubscribe(ls, hook.event, hook.listener)

\* A component that uses the hook mounts: the effect runs.
HookMount ==
    \E k \in HookUses, e \in BridgeEvent, l \in Listeners :
        /\ ~hooks[k].mounted
        /\ bridgeListeners' = useBridgeEventEffect(bridgeListeners, e, l)
        /\ hooks' = [hooks EXCEPT ![k] = [mounted |-> TRUE, event |-> e, listener |-> l]]
        /\ callLog' = <<>>
        /\ UNCHANGED handles
        /\ SubscriptionFrame

\* A render with another event or listener: [event, listener] changed, so
\* React runs the previous cleanup and then the effect again.
HookRerender ==
    \E k \in HookUses, e \in BridgeEvent, l \in Listeners :
        /\ hooks[k].mounted
        /\ <<e, l>> # <<hooks[k].event, hooks[k].listener>>
        /\ bridgeListeners' =
              useBridgeEventEffect(useBridgeEventCleanup(bridgeListeners, hooks[k]), e, l)
        /\ hooks' = [hooks EXCEPT ![k] = [mounted |-> TRUE, event |-> e, listener |-> l]]
        /\ callLog' = <<>>
        /\ UNCHANGED handles
        /\ SubscriptionFrame

\* The component unmounts: React runs the last cleanup.
HookUnmount ==
    \E k \in HookUses :
        /\ hooks[k].mounted
        /\ bridgeListeners' = useBridgeEventCleanup(bridgeListeners, hooks[k])
        /\ hooks' = [hooks EXCEPT ![k] = NoHook]
        /\ callLog' = <<>>
        /\ UNCHANGED handles
        /\ SubscriptionFrame

HookNext ==
    \/ HookMount
    \/ HookRerender
    \/ HookUnmount
    \/ EmitEvent

SpecHooks == Init /\ [][HookNext]_vars

\* ----------------------------------------------------------- properties
\* C1: when the native call of completeAgendaItem, setAgendaStatus or
\* appendCaptureEntry returns, every listener subscribed to agendaChanged is
\* invoked, after the native call has returned and before the bridge
\* function returns.
C1_AgendaChangedBetweenNativeAndReturn ==
    (CallName(callLog) \in MutationFns /\ HasKind(callLog, "native"))
    => \A l \in Subscribers("agendaChanged") :
         \E i, j, k \in 1..Len(callLog) :
            /\ i < j /\ j < k
            /\ callLog[i].kind = "native"
            /\ callLog[j].kind = "deliver"
            /\ callLog[j].name = "agendaChanged"
            /\ callLog[j].listener = l
            /\ callLog[k].kind = "return"

\* C1 witness: a mutation returned with two agendaChanged listeners
\* subscribed, one of which threw.
C1_Witness ==
    /\ CallName(callLog) \in MutationFns
    /\ Returned(callLog)
    /\ Len(bridgeListeners["agendaChanged"]) >= 2
    /\ \E i \in 1..Len(callLog) : callLog[i].kind = "deliver" /\ callLog[i].threw

\* C2: every mutation that returns notifies the agendaChanged listeners and
\* the documentsChanged listeners.
C2_MutationNotifiesAgendaAndDocuments ==
    (CallName(callLog) \in MutationFns /\ Returned(callLog))
    => /\ \A l \in Subscribers("agendaChanged") : Delivered(callLog, "agendaChanged", l)
       /\ \A l \in Subscribers("documentsChanged") : Delivered(callLog, "documentsChanged", l)

\* C4: a store call that reached native set_roots and completed has invoked
\* every listener subscribed to rootsChanged.
C4_RootsChangedDelivered ==
    (HasKind(callLog, "native") /\ Returned(callLog)
        /\ CallName(callLog) \in StoreFns \cup {"setRoots"})
    => \A l \in Subscribers("rootsChanged") : Delivered(callLog, "rootsChanged", l)

\* C4 witness: a store call changed the root set and completed while two
\* screens listened to rootsChanged and their listeners threw.
C4_Witness ==
    /\ CallName(callLog) \in StoreFns
    /\ Returned(callLog)
    /\ lastSync.synced
    /\ lastSync.seen # store
    /\ Len(bridgeListeners["rootsChanged"]) >= 2
    /\ \E i \in 1..Len(callLog) : callLog[i].kind = "deliver" /\ callLog[i].threw

\* C5: while every store call so far has completed, the configuration last
\* given to native set_roots has the store's roots and roamRoots.
C5_NativeMirrorsStore ==
    (allCompleted /\ nativeConfig.called)
    => /\ nativeConfig.roots = store.roots
       /\ ConfigRoam(nativeConfig) = store.roamRoots

\* C6: when addRoot, removeRoot, addRoamRoot or removeRoamRoot makes a
\* rootsChanged or documentsChanged listener run, the store state at that
\* moment is the root set that was passed to set_roots.
C6_ListenersSeeTheNewRootSet ==
    (/\ CallName(callLog) \in StoreFns \ {"reset"}
     /\ lastSync.synced
     /\ \E i \in 1..Len(callLog) :
            callLog[i].kind = "deliver"
            /\ callLog[i].name \in {"rootsChanged", "documentsChanged"})
    => /\ lastSync.seen.roots = lastSync.passed.roots
       /\ lastSync.seen.roamRoots = ConfigRoam(lastSync.passed)

\* C3: a mutation that throws emits no bridge event and leaves the cached
\* agenda snapshots as they were.
C3_FailedMutationChangesNothing ==
    [][(CallName(callLog') \in MutationFns /\ Threw(callLog'))
        => (~HasKind(callLog', "deliver") /\ cache' = cache)]_vars

\* C3 witness: a mutation threw while the Agenda screen was listening and a
\* snapshot was cached for the current key.
C3_Witness ==
    /\ CallName(callLog) \in MutationFns
    /\ Threw(callLog)
    /\ Mounted("agenda")
    /\ cache[QueryKey(store)] # NoData

\* C7: once the fetches in flight have resolved, the snapshot cached under
\* the key of the last mutation a screen completed was computed from the
\* files as that mutation left them, or from a later version.
C7_CacheNotOlderThanMutation ==
    (lastMutation.called /\ Drained)
    => cache[lastMutation.key] >= lastMutation.ver

\* C7 witness: the Agenda screen set a status, its listener's refetch has
\* resolved after the screen's own setQueryData, and nothing is in flight.
C7_Witness ==
    /\ lastMutation.called
    /\ lastApply.called
    /\ lastApply.key = lastMutation.key
    /\ Mounted("agenda")
    /\ Drained
    /\ callLog = <<>>
    /\ cache[lastMutation.key] = lastMutation.ver

\* C8: the address applyStatus passes to set_agenda_status comes from the
\* snapshot the cache holds for the current key at the time of the call,
\* never from a snapshot of an older version of the files.
C8_AddressFromCachedSnapshot ==
    lastApply.called => lastApply.item.ver = lastApply.cached

\* C9: groupByDay partitions the items by date: every item of the snapshot
\* is in exactly one group, a group's key is the date of its items or
\* 'unscheduled' for those with no date, the items of a group are in
\* snapshot order, and the groups are in the order in which their keys first
\* occur in the snapshot.
C9_GroupByDayPartitions ==
    /\ \A i \in 1..Len(items) :
           Cardinality({<<g, j>> \in (1..Len(groups)) \X (1..Len(items)) :
                           j <= Len(groups[g].list) /\ groups[g].list[j] = items[i]}) = 1
    /\ \A g \in 1..Len(groups) :
           /\ groups[g].list # <<>>
           /\ \A j \in 1..Len(groups[g].list) :
                  LET item == groups[g].list[j]
                  IN  /\ item.id \in 1..Len(items)
                      /\ items[item.id] = item
                      /\ groups[g].date = IF item.date = Null THEN "unscheduled"
                                          ELSE item.date
           /\ \A j, k \in 1..Len(groups[g].list) :
                  j < k => groups[g].list[j].id < groups[g].list[k].id
    /\ \A g, h \in 1..Len(groups) :
           g < h => /\ groups[g].date # groups[h].date
                    /\ groups[g].list[1].id < groups[h].list[1].id

\* C9 witness: a snapshot of four items in which an undated item comes
\* first and two dates alternate, grouped into three groups.
C9_Witness ==
    /\ Len(items) = MaxItems
    /\ items[1].date = Null
    /\ items[2].date = "2024-01-06"
    /\ items[3].date = "2024-01-05"
    /\ items[4].date = "2024-01-06"
    /\ Len(groups) = 3
    /\ groups[1].date = "unscheduled"
    /\ groups[2].list = <<items[2], items[4]>>

\* The ':NAME:' lines that open a drawer and the ':END:' line that closes it.
IsEndLine(line) == Trim(line) = END

IsOpenLine(line) == MatchesDrawerMarker(Trim(line)) /\ ~IsEndLine(line)

\* Line k of the document follows a drawer that was opened and closed, with
\* no drawer marker since.
AfterClosedDrawer(lines, k) ==
    \E i, j \in 1..Len(lines) :
        /\ i < j /\ j < k
        /\ IsOpenLine(lines[i])
        /\ IsEndLine(lines[j])
        /\ \A m \in (i + 1)..(j - 1) : ~MatchesDrawerMarker(Trim(lines[m]))
        /\ \A m \in (j + 1)..k : ~MatchesDrawerMarker(Trim(lines[m]))

RECURSIVE Occurs(_, _)
Occurs(pat, s) ==
    IF StartsWith(s, pat) THEN TRUE
    ELSE IF s = <<>> THEN FALSE
    ELSE Occurs(pat, Tail(s))

\* C10: a line after a drawer that ':END:' has closed is converted as usual:
\* a heading line gives a heading node of its depth and text, and a line of
\* body text is part of a paragraph node.
C10_LinesAfterClosedDrawerConverted ==
    LET lines == split(raw)
    IN  \A k \in 1..Len(lines) :
            AfterClosedDrawer(lines, k)
            => LET heading == headingMatch(lines[k])
               IN  /\ heading.matched
                      => \E n \in 1..Len(slateNodes) :
                             /\ slateNodes[n].type = "heading"
                             /\ slateNodes[n].depth = heading.depth
                             /\ slateNodes[n].text = formatText(heading.text, readerMode)
                   /\ (~heading.matched /\ Trim(lines[k]) # <<>> /\ ~outlineOnly)
                      => \E n \in 1..Len(slateNodes) :
                             /\ slateNodes[n].type = "paragraph"
                             /\ Occurs(formatText(lines[k], readerMode),
                                       slateNodes[n].text)

\* Line k lies inside a drawer: after a ':NAME:' line and before the ':END:'
\* line that closes it.
InsideDrawer(lines, k) ==
    \E i, j \in 1..Len(lines) :
        /\ i < k /\ k < j
        /\ IsOpenLine(lines[i])
        /\ IsEndLine(lines[j])
        /\ \A m \in (i + 1)..(j - 1) : ~MatchesDrawerMarker(Trim(lines[m]))

RECURSIVE OutsideLines(_, _)
OutsideLines(lines, k) ==
    IF k > Len(lines) THEN <<>>
    ELSE IF InsideDrawer(lines, k) /\ Trim(lines[k]) # <<>>
         THEN OutsideLines(lines, k + 1)
    ELSE <<lines[k]>> \o OutsideLines(lines, k + 1)

\* The document with the lines of text inside its drawers left out.
WithoutDrawerContent(text) == join(OutsideLines(split(text), 1), <<"\n">>)

\* C11: the lines inside a drawer are opaque: the nodes of a document are
\* the nodes of the same document with the text inside its drawers left
\* out, so no such line gives a heading node or adds text to a paragraph
\* node.
C11_DrawerRegionsOpaque ==
    slateNodes = convertOrgToSlate(WithoutDrawerContent(raw),
                                   ConversionOptions(outlineOnly, readerMode))

\* A ':NAME:' line opens a drawer if an ':END:' line follows it.
OpensDrawer(lines, i) ==
    IsOpenLine(lines[i]) /\ \E j \in (i + 1)..Len(lines) : IsEndLine(lines[j])

\* A drawer is open when line k is read.
RECURSIVE DrawerOpenBefore(_, _)
DrawerOpenBefore(lines, k) ==
    IF k <= 1 THEN FALSE
    ELSE IF DrawerOpenBefore(lines, k - 1) THEN ~IsEndLine(lines[k - 1])
    ELSE OpensDrawer(lines, k - 1)

\* Line k is a drawer delimiter with no partner: an ':END:' met while no
\* drawer is open, or a ':NAME:' that no ':END:' follows.
UnmatchedDelimiter(lines, k) ==
    /\ ~DrawerOpenBefore(lines, k)
    /\ \/ IsEndLine(lines[k])
       \/ IsOpenLine(lines[k]) /\ ~OpensDrawer(lines, k)

\* The line has been converted: as a heading node if it is a heading line,
\* else as text of a paragraph node (unless only the outline is shown).
Converted(line) ==
    LET heading == headingMatch(line)
    IN  IF heading.matched
        THEN \E n \in 1..Len(slateNodes) :
                 /\ slateNodes[n].type = "heading"
                 /\ slateNodes[n].depth = heading.depth
                 /\ slateNodes[n].text = formatText(heading.text, readerMode)
        ELSE (Trim(line) # <<>> /\ ~outlineOnly)
             => \E n \in 1..Len(slateNodes) :
                    /\ slateNodes[n].type = "paragraph"
                    /\ Occurs(formatText(line, readerMode), slateNodes[n].text)

\* C12: a drawer delimiter with no partner is kept as paragraph text, and no
\* line after it is dropped because of it.
C12_UnmatchedDelimitersArePlainText ==
    LET lines == split(raw)
    IN  \A k \in 1..Len(lines) :
            UnmatchedDelimiter(lines, k)
            => /\ Converted(lines[k])
               /\ \A m \in (k + 1)..Len(lines) :
                      ~DrawerOpenBefore(lines, m) => Converted(lines[m])

\* Line k is read outside the drawers and is not the opening of one.
OutsideDrawers(lines, k) == ~DrawerOpenBefore(lines, k) /\ ~OpensDrawer(lines, k)

\* Line k is a line of body text: outside the drawers, not blank, not a
\* drawer delimiter and not a heading line.
IsTextLine(lines, k) ==
    /\ OutsideDrawers(lines, k)
    /\ Trim(lines[k]) # <<>>
    /\ ~MatchesDrawerMarker(Trim(lines[k]))
    /\ ~headingMatch(lines[k]).matched

\* The runs of consecutive lines of body text from line k on, `run` being
\* the run in progress: a blank line or a heading line outside the drawers
\* ends the run, a drawer does not.
RECURSIVE TextRuns(_, _, _)
TextRuns(lines, k, run) ==
    IF k > Len(lines) THEN (IF run = <<>> THEN <<>> ELSE <<run>>)
    ELSE IF IsTextLine(lines, k) THEN TextRuns(lines, k + 1, Append(run, lines[k]))
    ELSE IF OutsideDrawers(lines, k) /\ ~MatchesDrawerMarker(Trim(lines[k])) /\ run # <<>>
         THEN <<run>> \o TextRuns(lines, k + 1, <<>>)
    ELSE TextRuns(lines, k + 1, run)

ParagraphTexts(nodes) ==
    LET ps == SelectSeq(nodes, LAMBDA n : n.type = "paragraph")
    IN  [i \in 1..Len(ps) |-> ps[i].text]

\* C13: with body text shown, every run of consecutive lines of body text is
\* one paragraph node, and the paragraph nodes are these runs in document
\* order: a blank line or a heading line between two lines puts them in
\* different paragraphs.
C13_RunsAreParagraphs ==
    LET lines == split(raw)
        runs  == TextRuns(lines, 1, <<>>)
    IN  (~outlineOnly /\ runs # <<>>)
        => ParagraphTexts(slateNodes)
             = [i \in 1..Len(runs) |-> formatText(join(runs[i], <<" ">>), readerMode)]

\* C14: whatever the document and the switches, the conversion returns at
\* least one node, and every node is a paragraph or a heading of depth 1 or
\* more.
C14_ConversionReturnsNodes ==
    /\ Len(slateNodes) >= 1
    /\ \A n \in 1..Len(slateNodes) :
           \/ slateNodes[n].type = "paragraph"
           \/ slateNodes[n].type = "heading" /\ slateNodes[n].depth >= 1

\* C14 witness: a document of two or more lines, all of them drawer
\* delimiters or blank, converted to a single node.
C14_Witness ==
    LET lines == split(raw)
    IN  /\ Len(lines) >= 2
        /\ \E k \in 1..Len(lines) : MatchesDrawerMarker(Trim(lines[k]))
        /\ \A k \in 1..Len(lines) :
               MatchesDrawerMarker(Trim(lines[k])) \/ Trim(lines[k]) = <<>>
        /\ outlineOnly
        /\ readerMode
        /\ Len(slateNodes) = 1

\* C15: the heading nodes of convertOrgToSlate are in the order of their
\* source lines, each with the depth its line has leading '*' characters (at
\* least 1); slateNodesToDescendants keeps the order and the depth of the
\* nodes it is given, and with outlineOnly keeps the headings only whenever
\* there is one.
RECURSIVE IsSubsequence(_, _)
IsSubsequence(a, b) ==
    IF a = <<>> THEN TRUE
    ELSE IF b = <<>> THEN FALSE
    ELSE IF Head(a) = Head(b) THEN IsSubsequence(Tail(a), Tail(b))
    ELSE IsSubsequence(a, Tail(b))

IsHeading(node) == node.type = "heading"

\* Depth and text of the heading nodes, in order.
HeadingsOf(nodes) ==
    LET hs == SelectSeq(nodes, IsHeading)
    IN  [i \in 1..Len(hs) |-> <<hs[i].depth, hs[i].text>>]

\* What the heading lines of a document say, in order: the number of
\* leading '*' and the text after them.
HeadingLines(lines) ==
    LET IsHeadingLine(line) == headingMatch(line).matched
        hs == SelectSeq(lines, IsHeadingLine)
    IN  [i \in 1..Len(hs) |->
            <<RunLength(hs[i], 1, {"*"}),
              formatText(headingMatch(hs[i]).text, readerMode)>>]

\* Type and depth of structural nodes, in order.
Structure(nodes) ==
    [i \in 1..Len(nodes) |->
        <<nodes[i].type, IF nodes[i].type = "paragraph" THEN 0 ELSE nodes[i].depth>>]

C15_HeadingOrderAndDepth ==
    LET given == SelectSeq(slate, IsHeading)
    IN  /\ (slate = <<>> \/ (outlineOnly /\ given = <<>>))
            => /\ IsSubsequence(HeadingsOf(slateNodes), HeadingLines(split(raw)))
               /\ \A n \in 1..Len(slateNodes) :
                      IsHeading(slateNodes[n]) => slateNodes[n].depth >= 1
        /\ (slate # <<>> /\ ~outlineOnly)
            => Structure(slateNodes) = Structure(slate)
        /\ (outlineOnly /\ given # <<>>)
            => Structure(slateNodes) = Structure(given)

C15_Witness ==
    /\ outlineOnly
    /\ Len(slate) = 3
    /\ Structure(slate) = <<<<"heading", 2>>, <<"paragraph", 0>>, <<"heading", 1>>>>
    /\ Structure(slateNodes) = <<<<"heading", 2>>, <<"heading", 1>>>>

\* C16: requestOrgDirectory returns a handle only if the picker reported
\* granted with a directory URI and persistPermissionsAsync for that URI
\* completed before the return; if permission is not granted or there is
\* no URI it rejects without calling persistPermissionsAsync; if persisting
\* fails it returns no handle; so every root the pick handlers add is a
\* URI whose access was persisted.
Happened(trace, event) == \E i \in 1..Len(trace) : trace[i] = event

Precedes(trace, first, second) ==
    \E i, j \in 1..Len(trace) : i < j /\ trace[i] = first /\ trace[j] = second

C17_OnlyValidEdges ==
    roamGraph.loaded
    => /\ \A i \in 1..Len(roamGraph.links) :
             /\ Contains(roamGraph.nodes, roamGraph.links[i].target)
             /\ Contains(roamGraph.nodes, roamGraph.links[i].source)
       /\ \A i \in 1..Len(backlinks(selectedNodeId, roamGraph)) :
             Contains(roamGraph.nodes, backlinks(selectedNodeId, roamGraph)[i])

C17_Witness ==
    /\ roamGraph.loaded
    /\ Len(roamDocs) = 2
    /\ roamDocs[1].link = MissingId
    /\ roamDocs[2].link = roamDocs[1].id
    /\ roamGraph = RoamQueryFn(store.roamRoots, roamDocs)
    /\ Len(roamGraph.links) = 1
    /\ selectedNodeId = roamDocs[1].id
    /\ backlinks(selectedNodeId, roamGraph) = <<roamDocs[2].id>>

\* C18: at most one sync job per root and kind is in flight at any time; a
\* RemoteDelta request against a root that has one running is coalesced,
\* not started, and leaves exactly one job running.
C18_OneJobPerRootAndKind ==
    /\ \A root \in RootNames, kind \in SyncKinds :
          Cardinality(InFlight(syncJobs, root, kind)) <= 1
    /\ \A i \in 1..Len(syncJobs) : syncJobs[i].root \in syncRoots
    /\ lastRequest.made
        => Cardinality(InFlight(syncJobs, lastRequest.job.root, lastRequest.job.kind)) = 1

C18_Witness ==
    /\ lastRequest.made
    /\ lastRequest.job.kind = "RemoteDelta"
    /\ lastRequest.outcome = "coalesced"
    /\ Cardinality(InFlight(syncJobs, lastRequest.job.root, "RemoteDelta")) = 1
    /\ Len(syncJobs) >= 2

\* C19: once the document list has been loaded and the selection effects
\* have run, selectedPath is a path of the list, and it is null only if the
\* list is empty.
C19_SelectionFollowsDocuments ==
    documents.loaded
    => IF Len(documents.paths) = 0 THEN selectedPath = NoPath
       ELSE Contains(documents.paths, selectedPath)

C19_Witness ==
    /\ documents.loaded
    /\ documents = DocumentsQueryFn(store.roots, libraryDocs)
    /\ Len(documents.paths) = 2
    /\ selectedPath = documents.paths[1]
    /\ <<"a">> \notin SeqToSet(documents.paths)

\* C20: once the roam graph has been loaded and the selection effect has
\* run, if the graph has a node then selectedNodeId is the id of a node of
\* the graph.
C20_SelectionFollowsGraph ==
    (roamGraph.loaded /\ Len(roamGraph.nodes) > 0)
    => Contains(roamGraph.nodes, selectedNodeId)

\* C21: when reset() has returned, the store's roots and roamRoots are both
\* empty.
C21_ResetEmptiesTheStore ==
    (CallName(callLog) = "reset" /\ Returned(callLog))
    => (store.roots = <<>> /\ store.roamRoots = <<>>)

\* C22: whatever addRoot, removeRoot, addRoamRoot and removeRoamRoot are
\* called with, roots and roamRoots each hold no entry twice, no empty or
\* whitespace-only entry and only trimmed strings, and the entries stay in
\* the order they were inserted in.
WellFormedRoots(list) ==
    /\ \A i, j \in 1..Len(list) : i # j => list[i] # list[j]
    /\ \A i \in 1..Len(list) : list[i] # <<>> /\ Trim(list[i]) = list[i]

\* The entries that stay keep their order, and a new entry comes last.
OrderKept(old, new) ==
    LET Old(x) == Contains(old, x)
        stay == SelectSeq(new, Old)
    IN  /\ IsSubsequence(stay, old)
        /\ SubSeq(new, 1, Len(stay)) = stay

C22_RootListsWellFormed ==
    [][/\ WellFormedRoots(store'.roots)
       /\ WellFormedRoots(store'.roamRoots)
       /\ OrderKept(store.roots, store'.roots)
       /\ OrderKept(store.roamRoots, store'.roamRoots)]_vars

C22_Witness ==
    /\ CallName(callLog) = "removeRoot"
    /\ Returned(callLog)
    /\ lastSync.seen.roots = <<<<"b">>, <<"a">>>>
    /\ store.roots = <<<<"a">>>>
    /\ Len(store.roamRoots) = 2

\* C23: addRoot(p) with trim(p) empty or already among the roots leaves the
\* store as it is, makes no set_roots call and emits no event; and a call of
\* addRoot or removeRoot never changes roamRoots, as a call of addRoamRoot
\* or removeRoamRoot never changes roots.
NothingDone(res, state) ==
    /\ res.state = state
    /\ ~res.passed.called
    /\ \A i \in 1..Len(res.log) :
          res.log[i].name # "setRoots" /\ res.log[i].kind \notin {"native", "deliver"}

C23_AddRootIdempotentAndFramed ==
    /\ [](\A path \in PathInputs, native \in NativeOutcome, throwers \in Throwing :
            (Trim(path) = <<>> \/ Contains(store.roots, Trim(path)))
            => NothingDone(addRoot(store, path, native, bridgeListeners, throwers), store))
    /\ [][/\ (CallName(callLog') \in {"addRoot", "removeRoot"}
               => store'.roamRoots = store.roamRoots)
           /\ (CallName(callLog') \in {"addRoamRoot", "removeRoamRoot"}
               => store'.roots = store.roots)]_vars

C23_Witness ==
    /\ callLog = <<Entry("enter", "addRoot", 0, FALSE), Entry("return", "addRoot", 0, FALSE)>>
    /\ store.roots = <<<<"a">>, <<"b">>>>
    /\ store.roamRoots = <<<<"b">>>>
    /\ nativeConfig.roots = store.roots
    /\ Len(bridgeListeners["rootsChanged"]) = 2

\* C24: when native set_roots throws, or the native module cannot be located,
\* during addRoot, removeRoot, addRoamRoot or removeRoamRoot, the store's
\* roots and roamRoots are what they were before the call, native holds the
\* configuration it held, and no rootsChanged or documentsChanged listener
\* is invoked.
C24_FailedSyncChangesNothing ==
    [][(CallName(callLog') \in StoreFns \ {"reset"} /\ Threw(callLog'))
        => /\ store'.roots = store.roots
           /\ store'.roamRoots = store.roamRoots
           /\ nativeConfig' = nativeConfig
           /\ \A l \in Screens :
                 /\ ~Delivered(callLog', "rootsChanged", l)
                 /\ ~Delivered(callLog', "documentsChanged", l)]_vars

\* C24 witness: removeRoot threw while two screens listened, the store held
\* the root the call was to remove and native held the same configuration.
C24_Witness ==
    /\ CallName(callLog) = "removeRoot"
    /\ Threw(callLog)
    /\ lastSync.synced
    /\ Len(lastSync.passed.roots) < Len(store.roots)
    /\ nativeConfig.called
    /\ nativeConfig.roots = store.roots
    /\ Len(bridgeListeners["rootsChanged"]) = 2
    /\ Len(bridgeListeners["documentsChanged"]) >= 1

\* C25: when a listener throws during an emit, every listener subscribed to
\* that event is still invoked in the same call, and the call returns to its
\* caller rather than throwing.
C25_ThrowingListenerIsContained ==
    \A i \in 1..Len(callLog) :
        (callLog[i].kind = "deliver" /\ callLog[i].threw)
        => /\ \A l \in Subscribers(callLog[i].name) :
                 Delivered(callLog, callLog[i].name, l)
           /\ Returned(callLog)
           /\ ~HasKind(callLog, "throw")

\* C25 witness: appendCaptureEntry returned although the first of two
\* listeners of one event threw; the second was invoked after it.
C25_Witness ==
    /\ CallName(callLog) = "appendCaptureEntry"
    /\ Returned(callLog)
    /\ \E i, j \in 1..Len(callLog) :
          /\ i < j
          /\ callLog[i].kind = "deliver" /\ callLog[i].threw
          /\ callLog[j].kind = "deliver" /\ ~callLog[j].threw
          /\ callLog[j].name = callLog[i].name
          /\ callLog[j].listener # callLog[i].listener

\* The number of times an emit invoked listener l.
Invocations(log, l) ==
    Cardinality({i \in 1..Len(log) : log[i].kind = "deliver" /\ log[i].listener = l})

\* Listener l has a subscription to event e whose unsubscribe function has
\* not been called.
HasLiveSubscription(e, l) ==
    \E h \in 1..Len(handles) :
        handles[h].event = e /\ handles[h].listener = l /\ Live(handles[h])

\* C26: emitBridgeEvent(E) invokes a listener exactly once when the listener
\* has at least one live subscription to E, and not at all otherwise; every
\* invocation is made for E.
C26_InvokedIffLiveSubscription ==
    (CallName(callLog) \in BridgeEvent /\ Returned(callLog))
    => /\ \A l \in Listeners :
             Invocations(callLog, l) =
                 IF HasLiveSubscription(CallName(callLog), l) THEN 1 ELSE 0
       /\ \A i \in 1..Len(callLog) : callLog[i].name = CallName(callLog)

\* Listener l is in the bucket of event e.
Registered(e, l) == Contains(bridgeListeners[e], l)

\* C27: the listener of every mounted use of useBridgeEvent is registered
\* under the event of that use, and every registered listener is the latest
\* listener of a mounted use, under its latest event: nothing stays
\* registered for a use that re-rendered or unmounted.
C27_HookRegistersExactlyItsListener ==
    /\ \A k \in HookUses :
          hooks[k].mounted => Registered(hooks[k].event, hooks[k].listener)
    /\ \A e \in BridgeEvent, l \in Listeners :
          Registered(e, l)
          => \E k \in HookUses :
                hooks[k].mounted /\ hooks[k].event = e /\ hooks[k].listener = l

====
